---- MODULE Spec2Model ----
(***************************************************************************)
(* A state-machine model of the EVM interpreter in src/rust/src.           *)
(*                                                                         *)
(* The machine is instantiated at a reduced word size: a Word has          *)
(* WordBytes bytes instead of 32, and the host integer types u32 and usize *)
(* have U32Bits and UsizeBits bits.  Every literal of the source that is   *)
(* derived from the word size is scaled with it (32 -> WordBytes,          *)
(* 256 -> WordBits, 255 -> WordBits - 1, 31 -> WordBytes - 1); all other   *)
(* literals (opcode bytes, gas costs, the stack limit) are the source's.   *)
(* The orderings WordBits <= U32Max < UsizeMax < MaxWord of the real       *)
(* machine are kept.                                                       *)
(***************************************************************************)
EXTENDS Integers, Sequences, FiniteSets, TLC

VARIABLES frames, fault, done, result, config, nextId

vars == <<frames, fault, done, result, config, nextId>>

(***************************************************************************)
(* Bounds of the model.                                                    *)
(***************************************************************************)
\* bytes in a Word (32 in the source: Word = U256)
WordBytes == 2
\* bits of the host's u32 (the target of U256::as_u32)
U32Bits == 8
\* bits of the host's usize (the target of U256::as_usize)
UsizeBits == 12
\* bytes the host can allocate for one Memory before the allocation fails
HostMemBytes == 40
\* nested Evm::execute / run-loop activations the host stack can hold
HostStackFrames == 4
\* largest gas limit of the exhaustively enumerated small-gas scenarios
SmallGasMax == 24
\* most operands pushed before the opcode in the one-opcode programs
MaxPushes == 7
\* gas limit of the jump programs (it ends their loops)
JumpGasLimit == 64

WordBits == 8 * WordBytes

RECURSIVE Pow2(_)
Pow2(n) == IF n = 0 THEN 1 ELSE 2 * Pow2(n - 1)

WordModulus == Pow2(WordBits)
\* Word::max_value()
MaxWord == WordModulus - 1
\* the word with only the sign bit set (MIN_I256)
SignBitWord == Pow2(WordBits - 1)
U32Max == Pow2(U32Bits) - 1
UsizeMax == Pow2(UsizeBits) - 1

Min(a, b) == IF a < b THEN a ELSE b
Max(a, b) == IF a > b THEN a ELSE b

(***************************************************************************)
(* Word arithmetic: the operators of primitive_types::U256 that state.rs   *)
(* uses.  +, - and * panic on overflow; the overflowing_* forms wrap.      *)
(* A partial operator is a pair: XOverflows says when the source panics,   *)
(* X gives the value otherwise.                                            *)
(***************************************************************************)
overflowing_add(a, b) == (a + b) % WordModulus
overflowing_sub(a, b) == (a - b + WordModulus) % WordModulus

\* a * b mod 2^WordBits by double-and-add (intermediate values stay small)
RECURSIVE overflowing_mul(_, _)
overflowing_mul(a, b) ==
    IF b = 0 THEN 0
    ELSE ((a * (b % 2)) + 2 * overflowing_mul(a, b \div 2)) % WordModulus

AddOverflows(a, b) == a + b > MaxWord
SubOverflows(a, b) == a < b
MulOverflows(a, b) == a # 0 /\ b > MaxWord \div a

\* !a
BitNot(a) == MaxWord - a

RECURSIVE BitAnd(_, _)
BitAnd(a, b) ==
    IF a = 0 \/ b = 0 THEN 0
    ELSE (a % 2) * (b % 2) + 2 * BitAnd(a \div 2, b \div 2)

RECURSIVE BitOr(_, _)
BitOr(a, b) ==
    IF a = 0 THEN b
    ELSE IF b = 0 THEN a
    ELSE Max(a % 2, b % 2) + 2 * BitOr(a \div 2, b \div 2)

RECURSIVE BitXor(_, _)
BitXor(a, b) ==
    IF a = 0 THEN b
    ELSE IF b = 0 THEN a
    ELSE ((a + b) % 2) + 2 * BitXor(a \div 2, b \div 2)

\* a << n : bits shifted past the top are dropped, n >= WordBits gives 0
RECURSIVE ShiftLeft(_, _)
ShiftLeft(a, n) ==
    IF n >= WordBits THEN 0
    ELSE IF n = 0 THEN a
    ELSE ShiftLeft((2 * a) % WordModulus, n - 1)

\* a >> n
ShiftRight(a, n) == IF n >= WordBits THEN 0 ELSE a \div Pow2(n)

\* (a >> 255) & 1
SignOf(a) == BitAnd(ShiftRight(a, WordBits - 1), 1)

\* U256::as_u32 and U256::as_usize panic when the value does not fit
FitsU32(a) == a <= U32Max
FitsUsize(a) == a <= UsizeMax

(***************************************************************************)
(* Opcode bytes (opcodes.rs, enum Opcode) and gas constants (gas.rs).      *)
(***************************************************************************)
Stop == 0
Add == 1
Mul == 2
Sub == 3
Div == 4
Sdiv == 5
Mod == 6
Smod == 7
Addmod == 8
Mulmod == 9
Exp == 10
Signextend == 11
Lt == 16
Gt == 17
Slt == 18
Sgt == 19
Eq == 20
Iszero == 21
And == 22
Or == 23
Xor == 24
Not == 25
Byte == 26
Shl == 27
Shr == 28
Sar == 29
Sha3 == 32
Address == 48
Balance == 49
Origin == 50
Caller == 51
Callvalue == 52
Calldataload == 53
Calldatasize == 54
Calldatacopy == 55
Codesize == 56
Codecopy == 57
Gasprice == 58
Extcodesize == 59
Extcodecopy == 60
Returndatasize == 61
Returndatacopy == 62
Extcodehash == 63
Blockhash == 64
Coinbase == 65
Timestamp == 66
Number == 67
Difficulty == 68
Gaslimit == 69
Chainid == 70
Selfbalance == 71
Basefee == 72
Pop == 80
Mload == 81
Mstore == 82
Mstore8 == 83
Sload == 84
Sstore == 85
Jump == 86
Jumpi == 87
Pc == 88
Msize == 89
Gas == 90
Jumpdest == 91
Push0 == 95
Push1 == 96
Push32 == 127
Dup1 == 128
Dup16 == 143
Swap1 == 144
Swap16 == 159
Log0 == 160
Log1 == 161
Log2 == 162
Log3 == 163
Log4 == 164
Create == 240
Call == 241
Callcode == 242
Return == 243
Delegatecall == 244
Create2 == 245
Staticcall == 250
Revert == 253
Selfdestruct == 255

GAS_BASE == 2
GAS_VERY_LOW == 3
GAS_LOW == 5
GAS_MID == 8
GAS_HIGH == 10
GAS_EXTCODE == 700
GAS_SLOAD == 200
GAS_SSTORE_SET == 20000
GAS_SSTORE_RESET == 5000
GAS_SSTORE_CLEAR == 15000

\* Stack::MAX_SIZE
MAX_SIZE == 1024
\* EvmConfig::default().gas_limit
DEFAULT_GAS_LIMIT == 30000000

IsPush(b) == b >= Push1 /\ b <= Push32
IsDup(b) == b >= Dup1 /\ b <= Dup16
IsSwap(b) == b >= Swap1 /\ b <= Swap16
IsLog(b) == b >= Log0 /\ b <= Log4
IsCallOp(b) == b \in {Call, Delegatecall, Staticcall}

\* Opcode::from_byte: TRUE iff the byte decodes to Some(opcode)
from_byte(b) ==
    \/ b >= Stop /\ b <= Signextend
    \/ b >= Lt /\ b <= Sar
    \/ b = Sha3
    \/ b >= Address /\ b <= Extcodehash
    \/ b >= Blockhash /\ b <= Basefee
    \/ b >= Pop /\ b <= Jumpdest
    \/ b = Push0
    \/ IsPush(b) \/ IsDup(b) \/ IsSwap(b) \/ IsLog(b)
    \/ b \in {Create, Call, Callcode, Return, Delegatecall, Create2,
              Staticcall, Revert, Selfdestruct}

\* Opcode::gas_cost
gas_cost(b) ==
    IF b = Stop THEN GAS_BASE
    ELSE IF b \in {Add, Sub, Not, Lt, Gt, Slt, Sgt, Eq, Iszero, And, Or, Xor,
                   Byte, Shl, Shr, Sar} THEN GAS_VERY_LOW
    ELSE IF b \in {Mul, Div, Sdiv, Mod, Smod, Signextend} THEN GAS_LOW
    ELSE IF b \in {Addmod, Mulmod, Exp} THEN GAS_MID
    ELSE IF b = Sha3 THEN GAS_MID
    ELSE IF b \in {Address, Origin, Caller, Callvalue, Codesize, Gasprice,
                   Chainid, Selfbalance, Basefee} THEN GAS_BASE
    ELSE IF b \in {Balance, Extcodesize, Extcodehash} THEN GAS_EXTCODE
    ELSE IF b \in {Calldataload, Calldatasize, Returndatasize} THEN GAS_VERY_LOW
    ELSE IF b \in {Calldatacopy, Codecopy, Extcodecopy, Returndatacopy}
         THEN GAS_VERY_LOW
    ELSE IF b \in {Blockhash, Coinbase, Timestamp, Number, Difficulty, Gaslimit}
         THEN GAS_BASE
    ELSE IF b \in {Pop, Pc, Msize, Gas, Jumpdest} THEN GAS_BASE
    ELSE IF b \in {Mload, Mstore, Mstore8} THEN GAS_VERY_LOW
    ELSE IF b = Sload THEN GAS_SLOAD
    ELSE IF b = Sstore THEN GAS_SLOAD
    ELSE IF b \in {Jump, Jumpi} THEN GAS_MID
    ELSE IF b = Push0 THEN GAS_BASE
    ELSE IF IsPush(b) \/ IsDup(b) \/ IsSwap(b) \/ IsLog(b) THEN GAS_VERY_LOW
    ELSE IF b \in {Create, Call, Callcode, Delegatecall, Create2, Staticcall}
         THEN GAS_HIGH
    ELSE GAS_BASE

(***************************************************************************)
(* Outcomes of a fallible operation on a frame f: Ok(()), Err(e), or a     *)
(* host abort (a Rust panic, a failed allocation).                         *)
(***************************************************************************)
Ok(f) == [f |-> f, err |-> "none", fault |-> "none"]
Err(f, e) == [f |-> f, err |-> e, fault |-> "none"]
Abort(f, how) == [f |-> f, err |-> "none", fault |-> how]
IsOk(o) == o.err = "none" /\ o.fault = "none"

(***************************************************************************)
(* Stack (stack.rs).  data is a Vec: the top of the stack is the last      *)
(* element.                                                                *)
(***************************************************************************)
\* a push that does not look at the depth
push_unchecked(f, value) == Ok([f EXCEPT !.stack = Append(@, value)])

\* Stack::push
push(f, value) ==
    IF Len(f.stack) >= MAX_SIZE
    THEN Err(f, "StackOverflow")
    ELSE Ok([f EXCEPT !.stack = Append(@, value)])

\* the i-th word a run of pop() calls returns (i = 1 is the top)
Popped(f, i) == f.stack[Len(f.stack) - i + 1]

\* n successful Stack::pop calls
Drop(f, n) == [f EXCEPT !.stack = SubSeq(@, 1, Len(@) - n)]

\* the n-th pop()? of a handler returns Err: the pops before it have emptied
\* the stack
Underflow(f) == Err([f EXCEPT !.stack = <<>>], "StackUnderflow")

(***************************************************************************)
(* Gas (gas.rs).                                                           *)
(***************************************************************************)
\* a consume that books the amount before it compares
consume_then_check(f, amount) ==
    IF f.gas_used + amount > f.gas_limit
    THEN Err([f EXCEPT !.gas_used = @ + amount], "OutOfGas")
    ELSE Ok([f EXCEPT !.gas_used = @ + amount])

\* GasTracker::consume
consume(f, amount) ==
    IF f.gas_used + amount > f.gas_limit
    THEN Err(f, "OutOfGas")
    ELSE Ok([f EXCEPT !.gas_used = @ + amount])

\* GasTracker::remaining
remaining(f) == IF f.gas_limit >= f.gas_used THEN f.gas_limit - f.gas_used ELSE 0

(***************************************************************************)
(* Memory (memory.rs): [data, active_words, accessed].                     *)
(***************************************************************************)
Zeros(n) == [i \in 1..n |-> 0]

\* Memory::new
NewMemory == [data |-> <<>>, active_words |-> 0, accessed |-> FALSE]

\* Memory::expand: data.resize(size, 0)
expand(m, size) ==
    IF size > Len(m.data)
    THEN [m EXCEPT !.data = @ \o Zeros(size - Len(@))]
    ELSE m

\* the active_words update shared by read and write
Touch(m, required_size) ==
    LET new_active_words == (required_size + (WordBytes - 1)) \div WordBytes
    IN  IF new_active_words > m.active_words
        THEN [m EXCEPT !.active_words = new_active_words]
        ELSE m

\* usize addition: the mathematical sum, or its wrap-around in a build
\* without overflow checks
UsizeWrap(n) == n % (UsizeMax + 1)

\* Memory::read.  Returns [m, bytes, fault].  offset + size and offset + i are
\* usize additions: with overflow checks an overflow panics, without them it
\* wraps.  A resize beyond what the host can allocate aborts the process.
read(m, offset, size, overflow_checks) ==
    LET required_size == UsizeWrap(offset + size)
        overflow == offset + size > UsizeMax
        m1 == expand([m EXCEPT !.accessed = TRUE], required_size)
        byteAt(i) ==
            LET read_offset == UsizeWrap(offset + i)
            IN IF read_offset < Len(m1.data) THEN m1.data[read_offset + 1] ELSE 0
    IN  IF overflow /\ overflow_checks
        THEN [m |-> m, bytes |-> <<>>, fault |-> "panic"]
        ELSE IF required_size > HostMemBytes \/ size > HostMemBytes
        THEN [m |-> m, bytes |-> <<>>, fault |-> "alloc"]
        ELSE [m |-> Touch(m1, required_size),
              bytes |-> [i \in 1..size |-> byteAt(i - 1)],
              fault |-> "none"]

\* Memory::write.  Returns [m, fault].  On overflow of offset + data.len() the
\* build without overflow checks goes on to index data[offset], which is out
\* of bounds: every build panics.
write(m, offset, bytes) ==
    LET required_size == offset + Len(bytes)
        m1 == expand([m EXCEPT !.accessed = TRUE], required_size)
    IN  IF required_size > UsizeMax
        THEN [m |-> m, fault |-> "panic"]
        ELSE IF required_size > HostMemBytes
        THEN [m |-> m, fault |-> "alloc"]
        ELSE [m |-> Touch([m1 EXCEPT !.data =
                             [i \in 1..Len(m1.data) |->
                                IF i > offset /\ i <= offset + Len(bytes)
                                THEN bytes[i - offset] ELSE m1.data[i]]],
                          required_size),
              fault |-> "none"]

\* Memory::highest_accessed_index
highest_accessed_index(m) == IF m.data = <<>> THEN 0 ELSE Len(m.data) - 1

\* Word::to_big_endian into a WordBytes buffer
RECURSIVE to_big_endian(_, _)
to_big_endian(w, n) ==
    IF n = 0 THEN <<>> ELSE Append(to_big_endian(w \div 256, n - 1), w % 256)

\* Word::from_big_endian; also the loop value = value << 8 | byte of PUSHn,
\* whose shifts drop the bits above the word
RECURSIVE from_big_endian(_)
from_big_endian(bytes) ==
    IF bytes = <<>> THEN 0
    ELSE (256 * from_big_endian(SubSeq(bytes, 1, Len(bytes) - 1))
            + bytes[Len(bytes)]) % WordModulus

(***************************************************************************)
(* Word-level results of the arithmetic handlers of execute_opcode:        *)
(* [v, panic], panic = the handler hits a U256 operator that panics.       *)
(***************************************************************************)
Val(v) == [v |-> v, panic |-> FALSE]
Panics == [v |-> 0, panic |-> TRUE]
Bool(p) == IF p THEN 1 ELSE 0

op_Add(a, b) == Val(overflowing_add(a, b))
op_Mul(a, b) == Val(overflowing_mul(a, b))
\* a SUB that takes the first popped word as the right operand
op_Sub_swapped(a, b) == Val(overflowing_sub(b, a))
op_Sub(a, b) == Val(overflowing_sub(a, b))
op_Div(a, b) == Val(IF b = 0 THEN 0 ELSE a \div b)
op_Mod(a, b) == Val(IF b = 0 THEN 0 ELSE a % b)

op_Addmod(a, b, m) ==
    IF m = 0 THEN Val(0)
    ELSE LET sum == overflowing_add(a, b) IN Val(sum % m)

op_Mulmod(a, b, m) ==
    IF m = 0 THEN Val(0)
    ELSE LET a_mod == a % m
             b_mod == b % m
         IN  IF MulOverflows(a_mod, b_mod) THEN Panics
             ELSE Val((a_mod * b_mod) % m)

\* !x + Word::from(1)
Negate(x) == IF AddOverflows(BitNot(x), 1) THEN Panics ELSE Val(BitNot(x) + 1)

op_Sdiv(a, b) ==
    IF b = 0 THEN Val(0)
    ELSE LET sign_a == SignOf(a)
             sign_b == SignOf(b)
             abs_a == IF sign_a = 0 THEN a ELSE Negate(a).v
             abs_b == IF sign_b = 0 THEN b ELSE Negate(b).v
             abs_result == abs_a \div abs_b
         IN  IF sign_a # sign_b THEN Negate(abs_result) ELSE Val(abs_result)

op_Smod(a, b) ==
    IF b = 0 THEN Val(0)
    ELSE LET sign_a == SignOf(a)
             sign_b == SignOf(b)
             abs_a == IF sign_a = 0 THEN a ELSE Negate(a).v
             abs_b == IF sign_b = 0 THEN b ELSE Negate(b).v
             abs_result == abs_a % abs_b
         IN  IF sign_a = 0 THEN Val(abs_result) ELSE Negate(abs_result)

op_Signextend(b, x) ==
    IF b < WordBytes - 1
    THEN LET bit_pos == b * 8 + 7
             bit == BitAnd(ShiftRight(x, bit_pos), 1)
             low == ShiftLeft(1, bit_pos) - 1
         IN  IF bit = 0 THEN Val(BitAnd(x, low)) ELSE Val(BitOr(x, BitNot(low)))
    ELSE Val(x)

op_Slt(a, b) ==
    LET sign_a == SignOf(a)
        sign_b == SignOf(b)
    IN  IF sign_a # sign_b
        THEN Val(IF sign_a = 0 THEN 0 ELSE 1)
        ELSE Val(Bool(a < b))

op_Sgt(a, b) == Val(Bool(a > b))
op_Lt(a, b) == Val(Bool(a < b))
op_Gt(a, b) == Val(Bool(a > b))
op_Eq(a, b) == Val(Bool(a = b))
op_Iszero(a) == Val(Bool(a = 0))
op_And(a, b) == Val(BitAnd(a, b))
op_Or(a, b) == Val(BitOr(a, b))
op_Xor(a, b) == Val(BitXor(a, b))
op_Not(a) == Val(BitNot(a))

op_Byte(i, x) ==
    IF i >= WordBytes THEN Val(0)
    ELSE LET shift_amount == ((WordBytes - 1) - i) * 8
         IN  Val(BitAnd(ShiftRight(x, shift_amount), 255))

op_Shl(shift, value) ==
    IF ~FitsU32(shift) THEN Panics
    ELSE IF shift >= WordBits THEN Val(0)
    ELSE Val(ShiftLeft(value, shift))

op_Shr(shift, value) ==
    IF ~FitsU32(shift) THEN Panics
    ELSE IF shift >= WordBits THEN Val(0)
    ELSE Val(ShiftRight(value, shift))

op_Sar(shift, value) ==
    IF ~FitsU32(shift) THEN Panics
    ELSE IF shift >= WordBits
    THEN (IF SignOf(value) = 0 THEN Val(0) ELSE Val(MaxWord))
    ELSE LET sign_bit == SignOf(value)
             shifted == ShiftRight(value, shift)
             one_shl == ShiftLeft(1, WordBits - shift)
         IN  IF sign_bit = 0 THEN Val(shifted)
             ELSE IF SubOverflows(one_shl, 1) THEN Panics
             ELSE Val(BitOr(shifted, BitNot(one_shl - 1)))

\* the while loop of the Exp handler
RECURSIVE exp_loop(_, _, _)
exp_loop(res, exp, current_base) ==
    IF exp = 0 THEN Val(res)
    ELSE LET odd == exp % 2 = 1
         IN  IF odd /\ MulOverflows(res, current_base) THEN Panics
             ELSE IF MulOverflows(current_base, current_base) THEN Panics
             ELSE exp_loop(IF odd THEN res * current_base ELSE res,
                           exp \div 2, current_base * current_base)

op_Exp(base, exponent) == exp_loop(1, exponent, base)

ArithOps1 == {Iszero, Not}
ArithOps2 == {Add, Mul, Sub, Div, Mod, Sdiv, Smod, Exp, Signextend, Lt, Gt,
              Slt, Sgt, Eq, And, Or, Xor, Byte, Shl, Shr, Sar}
ArithOps3 == {Addmod, Mulmod}
IsArith(b) == b \in ArithOps1 \cup ArithOps2 \cup ArithOps3
ArithPops(b) == IF b \in ArithOps1 THEN 1 ELSE IF b \in ArithOps2 THEN 2 ELSE 3

\* the word an arithmetic handler computes from the words it popped
\* (x = first popped, y = second, z = third)
ArithResult(b, x, y, z) ==
    CASE b = Add -> op_Add(x, y)
      [] b = Mul -> op_Mul(x, y)
      [] b = Sub -> op_Sub(x, y)
      [] b = Div -> op_Div(x, y)
      [] b = Mod -> op_Mod(x, y)
      [] b = Sdiv -> op_Sdiv(x, y)
      [] b = Smod -> op_Smod(x, y)
      [] b = Addmod -> op_Addmod(x, y, z)
      [] b = Mulmod -> op_Mulmod(x, y, z)
      [] b = Exp -> op_Exp(x, y)
      [] b = Signextend -> op_Signextend(x, y)
      [] b = Lt -> op_Lt(x, y)
      [] b = Gt -> op_Gt(x, y)
      [] b = Slt -> op_Slt(x, y)
      [] b = Sgt -> op_Sgt(x, y)
      [] b = Eq -> op_Eq(x, y)
      [] b = Iszero -> op_Iszero(x)
      [] b = And -> op_And(x, y)
      [] b = Or -> op_Or(x, y)
      [] b = Xor -> op_Xor(x, y)
      [] b = Not -> op_Not(x)
      [] b = Byte -> op_Byte(x, y)
      [] b = Shl -> op_Shl(x, y)
      [] b = Shr -> op_Shr(x, y)
      [] b = Sar -> op_Sar(x, y)

\* the arithmetic, comparison, bitwise and shift handlers: pop, compute, push
exec_arith(f, b) ==
    LET n == ArithPops(b) IN
    IF Len(f.stack) < n THEN Underflow(f)
    ELSE LET r == ArithResult(b, Popped(f, 1),
                              IF n >= 2 THEN Popped(f, 2) ELSE 0,
                              IF n >= 3 THEN Popped(f, 3) ELSE 0)
         IN  IF r.panic THEN Abort(Drop(f, n), "panic")
             ELSE push(Drop(f, n), r.v)

(***************************************************************************)
(* The frame: EvmState (state.rs 8-46).  id, kind, err and pending are     *)
(* bookkeeping of the model: the order of creation, the opcode that        *)
(* created the frame, the Err its step returned, and the locals of a call  *)
(* handler that is waiting for its child.                                  *)
(***************************************************************************)
EmptyStorage == [k \in {} |-> 0]
NoCall == [op |-> Stop, ret_offset |-> 0, ret_size |-> 0]

\* EvmState::new
new(code, cfg) ==
    [stack |-> <<>>,
     memory |-> NewMemory,
     gas_used |-> 0,
     gas_limit |-> cfg.gas_limit,
     program_counter |-> 0,
     code |-> code,
     return_data |-> <<>>,
     logs |-> <<>>,
     address |-> cfg.to,
     caller |-> cfg.from,
     callvalue |-> cfg.value,
     calldata |-> cfg.data,
     halted |-> FALSE,
     reverted |-> FALSE,
     last_jumpi_jumped |-> FALSE,
     storage |-> EmptyStorage,
     config |-> cfg,
     static_context |-> FALSE,
     id |-> 0,
     kind |-> Stop,
     err |-> "none",
     pending |-> NoCall]

\* EvmState::status
status(f) ==
    IF f.reverted THEN "Reverted"
    ELSE IF f.halted THEN "Halted"
    ELSE "Running"

Reverse(s) == [i \in 1..Len(s) |-> s[Len(s) - i + 1]]

\* a result that reports success whatever the frame did
EvmResult_succeeding(f) ==
    [success |-> TRUE,
     gas_used |-> f.gas_used,
     stack |-> Reverse(f.stack),
     return_data |-> f.return_data,
     logs |-> f.logs]

\* EvmState::result
EvmResult(f) ==
    [success |-> ~f.reverted,
     gas_used |-> f.gas_used,
     stack |-> Reverse(f.stack),
     return_data |-> f.return_data,
     logs |-> f.logs]

\* a lookup that tells a key holding zero from a key that is absent
storage_get_if_present(st, key) ==
    IF key \in DOMAIN st THEN (IF st[key] = 0 THEN 1 ELSE st[key]) ELSE 0

\* storage.get(&key).copied().unwrap_or(Word::zero())
storage_get(st, key) == IF key \in DOMAIN st THEN st[key] ELSE 0

\* an insert that forgets every other key
storage_insert_alone(st, key, value) == [k \in {key} |-> value]

\* storage.insert(key, value)
storage_insert(st, key, value) ==
    [k \in (DOMAIN st) \cup {key} |-> IF k = key THEN value ELSE st[k]]

\* EvmState::is_valid_jump_destination: the walk from current_pos
RECURSIVE jumpdest_walk(_, _, _)
jumpdest_walk(code, position, current_pos) ==
    IF current_pos >= Len(code) THEN FALSE
    ELSE IF current_pos = position THEN code[position + 1] = Jumpdest
    ELSE LET opcode == code[current_pos + 1]
         IN  IF opcode >= Push1 /\ opcode <= Push32
             THEN jumpdest_walk(code, position,
                                current_pos + 1 + (opcode - Push1 + 1))
             ELSE jumpdest_walk(code, position, current_pos + 1)

is_valid_jump_destination(code, position) ==
    IF position >= Len(code) THEN FALSE
    ELSE jumpdest_walk(code, position, 0)

\* EvmState::is_jump_opcode
is_jump_opcode(b) == b \in {Jump, Jumpi}

(***************************************************************************)
(* Handlers of execute_opcode.  Each takes the frame after the base gas    *)
(* charge and returns an outcome.                                          *)
(***************************************************************************)
\* a STOP that empties the stack
exec_Stop_clearing(f) == Ok([f EXCEPT !.halted = TRUE, !.stack = <<>>])

exec_Stop(f) == Ok([f EXCEPT !.halted = TRUE])

exec_Pop(f) == IF Len(f.stack) < 1 THEN Underflow(f) ELSE Ok(Drop(f, 1))

exec_Push0(f) == push(f, 0)

\* a PUSHn that does not step over its immediate bytes
exec_Push_no_skip(f, b) ==
    LET size == (b - Push1) + 1
        pc == f.program_counter
    IN  IF pc + size >= Len(f.code) THEN Err(f, "Unknown")
        ELSE push(f, from_big_endian(SubSeq(f.code, pc + 2, pc + 1 + size)))

exec_Push(f, b) ==
    LET size == (b - Push1) + 1
        pc == f.program_counter
    IN  IF pc + size >= Len(f.code) THEN Err(f, "Unknown")
        ELSE LET value == from_big_endian(SubSeq(f.code, pc + 2, pc + 1 + size))
                 o == push(f, value)
             IN  IF ~IsOk(o) THEN o
                 ELSE Ok([o.f EXCEPT !.program_counter = @ + size])

exec_Dup(f, b) ==
    LET dup_index == (b - Dup1) + 1
    IN  IF Len(f.stack) < dup_index THEN Err(f, "StackUnderflow")
        ELSE push(f, f.stack[Len(f.stack) - dup_index + 1])

\* a SWAPn that overwrites the bottom element and keeps the other
exec_Swap_overwrite(f, b) ==
    LET swap_index == (b - Swap1) + 1
    IN  IF Len(f.stack) < swap_index + 1 THEN Err(f, "StackUnderflow")
        ELSE Ok([f EXCEPT !.stack[1] = f.stack[swap_index + 1]])

exec_Swap(f, b) ==
    LET swap_index == (b - Swap1) + 1
    IN  IF Len(f.stack) < swap_index + 1 THEN Err(f, "StackUnderflow")
        ELSE Ok([f EXCEPT !.stack =
                    [i \in 1..Len(@) |->
                        IF i = 1 THEN @[swap_index + 1]
                        ELSE IF i = swap_index + 1 THEN @[1]
                        ELSE @[i]]])

\* handlers that only push a value of the frame
exec_PushValue(f, value) == push(f, value)

exec_Mload(f) ==
    IF Len(f.stack) < 1 THEN Underflow(f)
    ELSE LET offset == Popped(f, 1)
             g == Drop(f, 1)
             r == read(g.memory, offset, WordBytes, g.config.overflow_checks)
         IN  IF ~FitsUsize(offset) THEN Abort(g, "panic")
             ELSE IF r.fault # "none" THEN Abort(g, r.fault)
             ELSE push([g EXCEPT !.memory = r.m], from_big_endian(r.bytes))

exec_Mstore(f) ==
    IF Len(f.stack) < 2 THEN Underflow(f)
    ELSE LET offset == Popped(f, 1)
             value == Popped(f, 2)
             g == Drop(f, 2)
             w == write(g.memory, offset, to_big_endian(value, WordBytes))
         IN  IF ~FitsUsize(offset) THEN Abort(g, "panic")
             ELSE IF w.fault # "none" THEN Abort(g, w.fault)
             ELSE Ok([g EXCEPT !.memory = w.m])

exec_Mstore8(f) ==
    IF Len(f.stack) < 2 THEN Underflow(f)
    ELSE LET offset == Popped(f, 1)
             value == Popped(f, 2)
             g == Drop(f, 2)
             byte_value == BitAnd(value, 255)
             w == write(g.memory, offset, <<byte_value>>)
         IN  IF ~FitsUsize(offset) THEN Abort(g, "panic")
             ELSE IF w.fault # "none" THEN Abort(g, w.fault)
             ELSE Ok([g EXCEPT !.memory = w.m])

exec_Msize(f) ==
    IF ~f.memory.accessed THEN push(f, 0)
    ELSE LET highest_accessed == highest_accessed_index(f.memory)
             size_in_words == (highest_accessed + WordBytes) \div WordBytes
         IN  push(f, size_in_words * WordBytes)

exec_Gas(f) == push(f, MaxWord)

exec_Pc(f) == push(f, f.program_counter)

exec_Jump(f) ==
    IF Len(f.stack) < 1 THEN Underflow(f)
    ELSE LET destination == Popped(f, 1)
             g == Drop(f, 1)
         IN  IF ~FitsUsize(destination) THEN Abort(g, "panic")
             ELSE IF destination >= Len(g.code)
             THEN Err(g, "InvalidJumpDestination")
             ELSE IF g.code[destination + 1] # Jumpdest
             THEN Err(g, "InvalidJumpDestination")
             ELSE IF ~is_valid_jump_destination(g.code, destination)
             THEN Err(g, "InvalidJumpDestination")
             ELSE Ok([g EXCEPT !.program_counter = destination])

exec_Jumpi(f) ==
    IF Len(f.stack) < 2 THEN Underflow(f)
    ELSE LET destination == Popped(f, 1)
             condition == Popped(f, 2)
             g == [Drop(f, 2) EXCEPT !.last_jumpi_jumped = FALSE]
         IN  IF condition = 0 THEN Ok(g)
             ELSE IF ~FitsUsize(destination) THEN Abort(g, "panic")
             ELSE IF destination >= Len(g.code)
             THEN Err(g, "InvalidJumpDestination")
             ELSE IF g.code[destination + 1] # Jumpdest
             THEN Err(g, "InvalidJumpDestination")
             ELSE IF ~is_valid_jump_destination(g.code, destination)
             THEN Err(g, "InvalidJumpDestination")
             ELSE Ok([g EXCEPT !.program_counter = destination,
                               !.last_jumpi_jumped = TRUE])

exec_Jumpdest(f) == Ok(f)

\* the dynamic gas cost of the Sstore handler
sstore_gas_cost(current_value, value) ==
    IF current_value = 0 /\ value # 0 THEN GAS_SSTORE_SET
    ELSE IF current_value # 0 /\ value = 0 THEN GAS_SSTORE_CLEAR
    ELSE GAS_SSTORE_RESET

\* an SSTORE that writes the slot before it charges the dynamic cost
exec_Sstore_writing_first(f) ==
    IF f.static_context THEN Err(f, "Unknown")
    ELSE IF Len(f.stack) < 2 THEN Underflow(f)
    ELSE LET key == Popped(f, 1)
             value == Popped(f, 2)
             g == Drop(f, 2)
             current_value == storage_get(g.storage, key)
             w == [g EXCEPT !.storage = storage_insert(@, key, value)]
         IN  consume(w, sstore_gas_cost(current_value, value))

exec_Sstore(f) ==
    IF f.static_context THEN Err(f, "Unknown")
    ELSE IF Len(f.stack) < 2 THEN Underflow(f)
    ELSE LET key == Popped(f, 1)
             value == Popped(f, 2)
             g == Drop(f, 2)
             current_value == storage_get(g.storage, key)
             c == consume(g, sstore_gas_cost(current_value, value))
         IN  IF ~IsOk(c) THEN c
             ELSE Ok([c.f EXCEPT !.storage = storage_insert(@, key, value)])

exec_Sload(f) ==
    IF Len(f.stack) < 1 THEN Underflow(f)
    ELSE push(Drop(f, 1), storage_get(f.storage, Popped(f, 1)))

\* TRUE iff the LOGn handler starts with the static-context check
log_checks_static(n) == n = 1

exec_Log(f, b) ==
    LET n == b - Log0 IN
    IF log_checks_static(n) /\ f.static_context THEN Err(f, "Unknown")
    ELSE IF Len(f.stack) < 2 + n THEN Underflow(f)
    ELSE LET offset == Popped(f, 1)
             size == Popped(f, 2)
             topics == [i \in 1..n |-> Popped(f, 2 + i)]
             g == Drop(f, 2 + n)
             r == read(g.memory, offset, size, g.config.overflow_checks)
         IN  IF ~FitsUsize(offset) \/ ~FitsUsize(size) THEN Abort(g, "panic")
             ELSE IF r.fault # "none" THEN Abort(g, r.fault)
             ELSE Ok([g EXCEPT !.memory = r.m,
                               !.logs = Append(@, [address |-> g.address,
                                                   topics |-> topics,
                                                   data |-> r.bytes])])

\* Return (b = Return) and Revert (b = Revert)
exec_Return(f, b) ==
    IF Len(f.stack) < 2 THEN Underflow(f)
    ELSE LET offset == Popped(f, 1)
             size == Popped(f, 2)
             g == Drop(f, 2)
             r == read(g.memory, offset, size, g.config.overflow_checks)
         IN  IF ~FitsUsize(offset) \/ ~FitsUsize(size) THEN Abort(g, "panic")
             ELSE IF r.fault # "none" THEN Abort(g, r.fault)
             ELSE IF b = Return
             THEN Ok([g EXCEPT !.memory = r.m, !.return_data = r.bytes,
                               !.halted = TRUE])
             ELSE Ok([g EXCEPT !.memory = r.m, !.return_data = r.bytes,
                               !.reverted = TRUE])

(***************************************************************************)
(* The world the executions run in: the accounts of the test state and the *)
(* programs handed to execute.  Programs are written with the opcode names;*)
(* operands that depend on the word or usize width are computed from it.   *)
(***************************************************************************)
\* opcodes whose handlers this model leaves out; no program of the model
\* contains them
NotModelled ==
    {Sha3, Balance, Origin, Gasprice, Calldataload, Calldatacopy, Codecopy,
     Returndatacopy, Extcodesize, Extcodecopy, Extcodehash, Blockhash,
     Coinbase, Timestamp, Number, Difficulty, Gaslimit, Chainid, Selfbalance,
     Basefee}

\* n times PUSH1 1
Pushes(n) == [i \in 1..(2 * n) |-> IF i % 2 = 1 THEN Push1 ELSE 1]

\* n times PUSH0
Zeroes(n) == [i \in 1..n |-> Push0]

\* PUSH2 v
Push2Of(v) == <<Push1 + 1, (v \div 256) % 256, v % 256>>

\* the opcode byte b behind n operands
OpWithPushes(n, b) == Pushes(n) \o <<b>>

FamilyOps == (0..255) \ NotModelled

\* the address of the account that holds OpWithPushes(n, b)
FamilyAddress(n, b) == 256 * (n + 1) + b

\* a call of kind op to addr with return area [0, ret_size), then
\* RETURNDATASIZE and STOP
CallProgram(op, addr, ret_size) ==
    <<Push1, ret_size>> \o Zeroes(IF op = Call THEN 4 ELSE 3)
        \o Push2Of(addr) \o <<Push0, op, Returndatasize, Stop>>

\* PUSHn v with n = WordBytes: pushes any word v
PushWord(v) == <<Push1 + (WordBytes - 1)>> \o to_big_endian(v, WordBytes)

\* the operands of a call of kind op to addr with the given value (CALL
\* only), gas argument 0, no call data and return area
\* [ret_offset, ret_offset + ret_size), and the call opcode
CallOp(op, addr, value, ret_offset, ret_size) ==
    <<Push1, ret_size>> \o PushWord(ret_offset) \o <<Push0, Push0>>
        \o (IF op = Call THEN <<Push1, value>> ELSE <<>>)
        \o Push2Of(addr) \o <<Push0, op>>

\* the number a key's hex digits denote
RECURSIVE FromHex(_)
FromHex(key) ==
    IF key = <<>> THEN 0
    ELSE 16 * FromHex(SubSeq(key, 1, Len(key) - 1)) + key[Len(key)]

\* the addresses of the accounts with hand-written code: 0xa1 ... 0xaa, and
\* the number behind a key written with a leading zero
Addr ==
    [ReturnsByte |-> FromHex(<<10, 1>>),
     SelfStaticcall |-> FromHex(<<10, 2>>),
     SelfCall |-> FromHex(<<10, 3>>),
     StoresThenReverts |-> FromHex(<<10, 4>>),
     CallsReturnsByte |-> FromHex(<<10, 5>>),
     RevertsWithByte |-> FromHex(<<10, 6>>),
     StaticcallsStore |-> FromHex(<<10, 7>>),
     DelegatecallsReturnsByte |-> FromHex(<<10, 8>>),
     StaticcallsLog |-> FromHex(<<10, 9>>),
     StoresOne |-> FromHex(<<10, 10>>),
     LeadingZeroKey |-> FromHex(<<0, 10, 11>>),
     CopiesSlot |-> FromHex(<<10, 12>>),
     ReturnsSlot |-> FromHex(<<10, 13>>),
     ReturnsTwoBytes |-> FromHex(<<10, 14>>),
     EmptyCode |-> FromHex(<<10, 15>>),
     DelegatesCopy |-> FromHex(<<11, 0>>),
     Absent |-> FromHex(<<11, 1>>)]

HandWritten ==
    {[key |-> <<10, 1>>,
      code |-> <<Push1, 7, Push0, Mstore8, Push1, 1, Push0, Return>>],
     [key |-> <<10, 2>>, code |-> CallProgram(Staticcall, Addr.SelfStaticcall, 0)],
     [key |-> <<10, 3>>, code |-> CallProgram(Call, Addr.SelfCall, 0)],
     [key |-> <<10, 4>>,
      code |-> <<Push1, 5, Push0, Sstore, Push0, Push0, Revert>>],
     [key |-> <<10, 5>>, code |-> CallProgram(Call, Addr.ReturnsByte, 1)],
     [key |-> <<10, 6>>,
      code |-> <<Push1, 9, Push0, Mstore8, Push1, 1, Push0, Revert>>],
     [key |-> <<10, 7>>,
      code |-> CallProgram(Staticcall, FamilyAddress(2, Sstore), 0)],
     [key |-> <<10, 8>>, code |-> CallProgram(Delegatecall, Addr.ReturnsByte, 1)],
     [key |-> <<10, 9>>,
      code |-> CallProgram(Staticcall, FamilyAddress(2, Log0), 0)],
     [key |-> <<10, 10>>, code |-> <<Push1, 1, Push1, 1, Sstore>>],
     \* a key written with a leading zero: "0x0ab"
     [key |-> <<0, 10, 11>>, code |-> <<Stop>>],
     \* storage[2] := storage[1]
     [key |-> <<10, 12>>, code |-> <<Push1, 1, Sload, Push1, 2, Sstore>>],
     \* returns the low byte of storage[1]
     [key |-> <<10, 13>>,
      code |-> <<Push1, 1, Sload, Push0, Mstore8, Push1, 1, Push0, Return>>],
     [key |-> <<10, 14>>,
      code |-> <<Push1, 7, Push0, Mstore8, Push1, 8, Push1, 1, Mstore8,
                 Push1, 2, Push0, Return>>],
     [key |-> <<10, 15>>, code |-> <<>>],
     [key |-> <<11, 0>>,
      code |-> CallOp(Delegatecall, Addr.CopiesSlot, 0, 0, 0) \o <<Stop>>]}

HandWrittenAddresses == {FromHex(a.key) : a \in HandWritten}

\* the accounts of the test state: HashMap<String, AccountState>, the key
\* being the hex digits after "0x"
test_state ==
    HandWritten \cup
    {[key |-> <<n + 1, b \div 16, b % 16>>, code |-> OpWithPushes(n, b)] :
        n \in 0..MaxPushes, b \in FamilyOps}

(***************************************************************************)
(* Sub-calls.  The handlers of Call, Delegatecall and Staticcall run the   *)
(* child to completion in the middle of the handler; the model splits them *)
(* at that point: CallPlan is the part before the child runs, call_finish  *)
(* the part after it.                                                      *)
(***************************************************************************)
\* format!("{:x}", w): the hex digits of w without leading zeros
RECURSIVE LowerHex(_)
LowerHex(w) ==
    IF w < 16 THEN <<w>> ELSE Append(LowerHex(w \div 16), w % 16)

\* the 20 low bytes of the word (all of them when the word is shorter)
to_address(w) == w % Pow2(8 * Min(20, WordBytes))

\* the code lookup of the call handlers: accounts.get("0x" + hex)
\* and the account's code, or an empty Vec
contract_code_of(accounts, address_bytes) ==
    LET key == LowerHex(address_bytes)
    IN  IF \E a \in accounts : a.key = key
        THEN (CHOOSE a \in accounts : a.key = key).code
        ELSE <<>>

call_pops(b) == IF b = Call THEN 7 ELSE 6

\* TRUE iff the handler of b starts with the static-context check
call_checks_static(b) == b \in {Call, Delegatecall}

\* a child state that is built as the Call handler builds it whatever b is
child_state_of_call(g, b, contract_code, address_bytes, value, call_data) ==
    new(contract_code,
        [g.config EXCEPT !.to = to_address(address_bytes), !.from = g.address,
                         !.value = value, !.data = call_data])

\* the child state the handler of b builds
child_state(g, b, contract_code, address_bytes, value, call_data) ==
    LET to == to_address(address_bytes) IN
    IF b = Call
    THEN new(contract_code,
             [g.config EXCEPT !.to = to, !.from = g.address,
                              !.value = value, !.data = call_data])
    ELSE IF b = Delegatecall
    THEN [new(contract_code,
              [g.config EXCEPT !.to = to, !.from = g.caller,
                               !.data = call_data])
            EXCEPT !.storage = g.storage, !.address = g.address]
    ELSE [new(contract_code,
              [g.config EXCEPT !.to = to, !.from = g.address,
                               !.data = call_data])
            EXCEPT !.storage = g.storage, !.address = g.address,
                   !.static_context = TRUE]

\* The call handler of b up to the point where the child starts to run.
\* spawn = FALSE: the handler is over with outcome out.
\* spawn = TRUE: out.f is the suspended caller and child the state to run.
CallPlan(f, b) ==
    LET n == call_pops(b)
        k == IF b = Call THEN 1 ELSE 0
    IN
    IF call_checks_static(b) /\ f.static_context
    THEN [spawn |-> FALSE, out |-> Err(f, "Unknown"), child |-> f]
    ELSE IF Len(f.stack) < n
    THEN [spawn |-> FALSE, out |-> Underflow(f), child |-> f]
    ELSE LET address_bytes == Popped(f, 2)
             value == IF b = Call THEN Popped(f, 3) ELSE 0
             args_offset == Popped(f, 3 + k)
             args_size == Popped(f, 4 + k)
             ret_offset == Popped(f, 5 + k)
             ret_size == Popped(f, 6 + k)
             g == Drop(f, n)
             contract_code == contract_code_of(test_state, address_bytes)
             r == read(g.memory, args_offset, args_size,
                       g.config.overflow_checks)
         IN  IF contract_code = <<>>
             THEN [spawn |-> FALSE, out |-> push(g, 0), child |-> f]
             ELSE IF ~FitsUsize(args_offset) \/ ~FitsUsize(args_size)
             THEN [spawn |-> FALSE, out |-> Abort(g, "panic"), child |-> f]
             ELSE IF r.fault # "none"
             THEN [spawn |-> FALSE, out |-> Abort(g, r.fault), child |-> f]
             ELSE [spawn |-> TRUE,
                   out |-> Ok([g EXCEPT !.memory = r.m,
                                        !.pending = [op |-> b,
                                                     ret_offset |-> ret_offset,
                                                     ret_size |-> ret_size]]),
                   child |-> child_state(g, b, contract_code, address_bytes,
                                         value, r.bytes)]

\* a copy loop that writes nothing
copy_no_return_data(m, ret_offset, return_data, i, n) ==
    [m |-> m, fault |-> "none"]

\* for i in 0..n { memory.write(ret_offset + i, &[return_data[i]])? }
RECURSIVE copy_return_data(_, _, _, _, _)
copy_return_data(m, ret_offset, return_data, i, n) ==
    IF i >= n THEN [m |-> m, fault |-> "none"]
    ELSE LET w == write(m, ret_offset + i, <<return_data[i + 1]>>)
         IN  IF w.fault # "none" THEN w
             ELSE copy_return_data(w.m, ret_offset, return_data, i + 1, n)

\* a call handler that takes the child's storage over whatever the opcode
call_finish_copying_storage(p, c) ==
    LET res == EvmResult(c)
        p1 == [p EXCEPT !.storage = c.storage]
        o == push(p1, Bool(res.success))
        ret_offset == p.pending.ret_offset
        ret_size == p.pending.ret_size
        p2 == [o.f EXCEPT !.return_data = res.return_data]
        w == copy_return_data(p2.memory, ret_offset, res.return_data, 0,
                              Min(ret_size, Len(res.return_data)))
    IN  IF ~IsOk(o) THEN o
        ELSE IF ~FitsUsize(ret_offset) \/ ~FitsUsize(ret_size)
        THEN Abort(o.f, "panic")
        ELSE IF w.fault # "none" THEN Abort(p2, w.fault)
        ELSE Ok([p2 EXCEPT !.memory = w.m,
                           !.program_counter = @ + 1,
                           !.pending = NoCall])

\* a call handler that takes the child's log records over
call_finish_with_logs(p, c) ==
    LET res == EvmResult(c)
        p1 == IF p.pending.op \in {Delegatecall, Staticcall}
              THEN [p EXCEPT !.storage = c.storage]
              ELSE p
        o == push(p1, Bool(res.success))
        ret_offset == p.pending.ret_offset
        ret_size == p.pending.ret_size
        p2 == [o.f EXCEPT !.return_data = res.return_data,
                          !.logs = @ \o res.logs]
        w == copy_return_data(p2.memory, ret_offset, res.return_data, 0,
                              Min(ret_size, Len(res.return_data)))
    IN  IF ~IsOk(o) THEN o
        ELSE IF ~FitsUsize(ret_offset) \/ ~FitsUsize(ret_size)
        THEN Abort(o.f, "panic")
        ELSE IF w.fault # "none" THEN Abort(p2, w.fault)
        ELSE Ok([p2 EXCEPT !.memory = w.m,
                           !.program_counter = @ + 1,
                           !.pending = NoCall])

\* The call handler after the child c has stopped, and the program counter
\* increment of step that follows it.
call_finish(p, c) ==
    LET res == EvmResult(c)
        p1 == IF p.pending.op \in {Delegatecall, Staticcall}
              THEN [p EXCEPT !.storage = c.storage]
              ELSE p
        o == push(p1, Bool(res.success))
        ret_offset == p.pending.ret_offset
        ret_size == p.pending.ret_size
        p2 == [o.f EXCEPT !.return_data = res.return_data]
        w == copy_return_data(p2.memory, ret_offset, res.return_data, 0,
                              Min(ret_size, Len(res.return_data)))
    IN  IF ~IsOk(o) THEN o
        ELSE IF ~FitsUsize(ret_offset) \/ ~FitsUsize(ret_size)
        THEN Abort(o.f, "panic")
        ELSE IF w.fault # "none" THEN Abort(p2, w.fault)
        ELSE Ok([p2 EXCEPT !.memory = w.m,
                           !.program_counter = @ + 1,
                           !.pending = NoCall])

(***************************************************************************)
(* execute_opcode and step.                                                *)
(***************************************************************************)
execute_opcode(f, b) ==
    IF b = Stop THEN exec_Stop(f)
    ELSE IF b = Pop THEN exec_Pop(f)
    ELSE IF b = Push0 THEN exec_Push0(f)
    ELSE IF IsPush(b) THEN exec_Push(f, b)
    ELSE IF IsArith(b) THEN exec_arith(f, b)
    ELSE IF IsDup(b) THEN exec_Dup(f, b)
    ELSE IF IsSwap(b) THEN exec_Swap(f, b)
    ELSE IF b = Address THEN exec_PushValue(f, f.address)
    ELSE IF b = Caller THEN exec_PushValue(f, f.caller)
    ELSE IF b = Callvalue THEN exec_PushValue(f, f.callvalue)
    ELSE IF b = Calldatasize THEN exec_PushValue(f, Len(f.calldata))
    ELSE IF b = Returndatasize THEN exec_PushValue(f, Len(f.return_data))
    ELSE IF b = Codesize THEN exec_PushValue(f, Len(f.code))
    ELSE IF b = Mload THEN exec_Mload(f)
    ELSE IF b = Mstore THEN exec_Mstore(f)
    ELSE IF b = Mstore8 THEN exec_Mstore8(f)
    ELSE IF b = Msize THEN exec_Msize(f)
    ELSE IF b = Gas THEN exec_Gas(f)
    ELSE IF b = Pc THEN exec_Pc(f)
    ELSE IF b = Jump THEN exec_Jump(f)
    ELSE IF b = Jumpi THEN exec_Jumpi(f)
    ELSE IF b = Jumpdest THEN exec_Jumpdest(f)
    ELSE IF b = Sstore THEN exec_Sstore(f)
    ELSE IF b = Sload THEN exec_Sload(f)
    ELSE IF IsLog(b) THEN exec_Log(f, b)
    ELSE IF b \in {Return, Revert} THEN exec_Return(f, b)
    ELSE IF IsCallOp(b) THEN CallPlan(f, b).out
    ELSE IF b \in NotModelled THEN Abort(f, "not modelled")
    ELSE Err(f, "Unknown")

\* a program counter update that does not look at last_jumpi_jumped
advance_every_jumpi(f, b) ==
    IF ~is_jump_opcode(b) \/ b = Jumpi
    THEN [f EXCEPT !.program_counter = @ + 1]
    ELSE f

\* the program counter update at the end of step
advance(f, b) ==
    IF ~is_jump_opcode(b) \/ (b = Jumpi /\ ~f.last_jumpi_jumped)
    THEN [f EXCEPT !.program_counter = @ + 1]
    ELSE f

\* a step that does not look at halted and reverted
step_of_ended_frame(f) ==
    IF f.program_counter >= Len(f.code)
    THEN Ok([f EXCEPT !.halted = TRUE])
    ELSE LET b == f.code[f.program_counter + 1] IN
         IF ~from_byte(b) THEN Err(f, "InvalidOpcode")
         ELSE LET g == consume(f, gas_cost(b)) IN
              IF ~IsOk(g) THEN g
              ELSE LET o == execute_opcode(g.f, b) IN
                   IF ~IsOk(o) THEN o
                   ELSE Ok(advance(o.f, b))

\* a step that charges the base cost of the byte before it decodes it
step_charging_first(f) ==
    IF f.halted \/ f.reverted THEN Ok(f)
    ELSE IF f.program_counter >= Len(f.code)
    THEN Ok([f EXCEPT !.halted = TRUE])
    ELSE LET b == f.code[f.program_counter + 1]
             g == consume(f, gas_cost(b))
         IN  IF ~IsOk(g) THEN g
             ELSE IF ~from_byte(b) THEN Err(g.f, "InvalidOpcode")
             ELSE LET o == execute_opcode(g.f, b) IN
                  IF ~IsOk(o) THEN o
                  ELSE Ok(advance(o.f, b))

\* EvmState::step
step(f) ==
    IF f.halted \/ f.reverted THEN Ok(f)
    ELSE IF f.program_counter >= Len(f.code)
    THEN Ok([f EXCEPT !.halted = TRUE])
    ELSE LET b == f.code[f.program_counter + 1] IN
         IF ~from_byte(b) THEN Err(f, "InvalidOpcode")
         ELSE LET g == consume(f, gas_cost(b)) IN
              IF ~IsOk(g) THEN g
              ELSE LET o == execute_opcode(g.f, b) IN
                   IF ~IsOk(o) THEN o
                   ELSE Ok(advance(o.f, b))

\* TRUE iff the next step of f reaches the run of a child
SpawnsChild(f) ==
    /\ status(f) = "Running"
    /\ f.program_counter < Len(f.code)
    /\ LET b == f.code[f.program_counter + 1] IN
       /\ IsCallOp(b)
       /\ IsOk(consume(f, gas_cost(b)))
       /\ CallPlan(consume(f, gas_cost(b)).f, b).spawn

(***************************************************************************)
(* The programs handed to Evm::execute and the configurations they run     *)
(* under.                                                                  *)
(***************************************************************************)
OneOpcodePrograms ==
    {OpWithPushes(n, b) : n \in 0..MaxPushes, b \in FamilyOps}

\* STATICCALL to every one-opcode account: the opcode runs in a static frame
StaticFamilyCallers ==
    {CallProgram(Staticcall, FamilyAddress(n, b), 0) :
        n \in 0..MaxPushes, b \in FamilyOps}

CallFamilyOps ==
    {Stop, Sstore, Sload, Log0, Log1, Return, Revert, Call, Delegatecall,
     Staticcall, Create, Jump}

OtherFamilyCallers ==
    {CallProgram(op, FamilyAddress(n, b), 0) :
        op \in {Call, Delegatecall}, n \in 0..MaxPushes, b \in CallFamilyOps}

HandWrittenCallers ==
    {CallProgram(op, a, rs) :
        op \in {Call, Delegatecall, Staticcall},
        a \in HandWrittenAddresses \cup {0},
        rs \in {0, 1, 2}}

\* PUSH1 c, PUSH2 d, JUMPI
JumpiAt(c, d) == <<Push1, c>> \o Push2Of(d) \o <<Jumpi>>

\* PUSH2 d, JUMP
JumpAt(d) == Push2Of(d) \o <<Jump>>

\* two JUMPIs in a row: JUMPI at 5, JUMPDEST at 6, JUMPI at 12 (its
\* condition byte is at 8), JUMPDEST at 13, STOP at 14
TwoJumpis(c1, d1, c2, d2) ==
    JumpiAt(c1, d1) \o <<Jumpdest>> \o JumpiAt(c2, d2) \o <<Jumpdest, Stop>>

\* JUMP at 3, PUSH1 0x5b at 4 (its data at 5), JUMPDEST at 6, STOP at 7
OneJump(d) == JumpAt(d) \o <<Push1, Jumpdest, Jumpdest, Stop>>

JumpDests == {0, 5, 6, 8, 13, 14, 15, UsizeMax, UsizeMax + 1}

JumpPrograms ==
    {TwoJumpis(c1, d1, c2, d2) :
        c1 \in {0, 1}, d1 \in JumpDests, c2 \in {0, Jumpdest}, d2 \in JumpDests}
    \cup {OneJump(d) : d \in JumpDests \cup {3, 4, 7}}

ArithInputs == {0, 1, 2, WordBits, SignBitWord, MaxWord - 1, MaxWord}

ArithPrograms ==
    {PushWord(x) \o <<b>> : b \in ArithOps1, x \in ArithInputs}
    \cup {PushWord(y) \o PushWord(x) \o <<b>> :
            b \in ArithOps2, x \in ArithInputs, y \in ArithInputs}
    \cup {PushWord(z) \o PushWord(y) \o PushWord(x) \o <<b>> :
            b \in ArithOps3, x \in ArithInputs, y \in ArithInputs,
            z \in ArithInputs}

MemOffsets ==
    {0, 1, WordBytes, HostMemBytes - WordBytes, HostMemBytes, UsizeMax,
     UsizeMax + 1, MaxWord}

MemSizes == {0, 1, WordBytes + 1, UsizeMax, MaxWord}

MemPrograms ==
    {PushWord(size) \o PushWord(offset) \o <<b, Msize>> :
        b \in {Mload, Mstore, Mstore8, Return, Revert, Log0},
        offset \in MemOffsets, size \in MemSizes}

\* MSTORE(a, w), MSTORE8(b, v), MLOAD(c), MSIZE, and
\* MSTORE(0, w), RETURN or REVERT(c, size)
MemoryPrograms ==
    {PushWord(w) \o PushWord(a) \o <<Mstore>>
        \o PushWord(v) \o PushWord(b) \o <<Mstore8>>
        \o PushWord(c) \o <<Mload, Msize, Stop>> :
        w \in {MaxWord, 258}, a \in {0, 1, WordBytes + 1},
        v \in {0, 257}, b \in {0, 1, WordBytes, 2 * WordBytes + 1},
        c \in {0, 1, WordBytes, UsizeMax - 1, UsizeMax}}
    \cup {PushWord(w) \o <<Push0, Mstore>>
            \o PushWord(size) \o PushWord(c) \o <<b>> :
            w \in {MaxWord, 258}, b \in {Return, Revert},
            size \in {0, 1, 2, WordBytes + 1},
            c \in {0, 1, WordBytes, UsizeMax - 1, UsizeMax}}

\* PUSHn followed by the k bytes fe, fd, ... (none of them an opcode that
\* could run to its end on the stack PUSHn leaves) and by tail
PushProgram(n, k, tail) ==
    <<Push1 + (n - 1)>> \o [i \in 1..k |-> 255 - i] \o tail

\* PUSH1 1, ..., PUSH1 d, SWAPn, SWAPn, STOP
SwapProgram(n, d) ==
    [i \in 1..(2 * d) |-> IF i % 2 = 1 THEN Push1 ELSE i \div 2]
        \o <<Swap1 + (n - 1), Swap1 + (n - 1), Stop>>

\* programs that push until the stack is full
StackPrograms ==
    {<<Jumpdest, Push0, Push0, Jump>>,
     <<Push0, Jumpdest, Dup1, Push1, 1, Jump>>,
     <<Jumpdest, Pc, Msize, Gas, Pop, Pop, Push0, Jump>>}

\* programs run under every gas limit 0..SmallGasMax
GasPrograms ==
    {CallProgram(Staticcall, Addr.ReturnsByte, 1),
     CallProgram(Call, Addr.RevertsWithByte, 1),
     CallProgram(Delegatecall, Addr.StoresThenReverts, 0),
     \* a call with a gas argument above the gas that remains
     Zeroes(4) \o Push2Of(Addr.ReturnsByte) \o <<Push1, 255, Staticcall, Stop>>,
     <<Push1, 1, Push1, 1, Add, Pop, Jumpdest, Push0, Mload, Stop>>,
     <<Push0, Push0, Sstore>>,
     <<Push0, Push0, Log0, Push0, Push0, Return>>,
     <<Stop>>}

\* programs whose SSTOREs pay the reset, the set and the clear price
SstorePrograms ==
    {<<Push0, Push0, Sstore>>,
     <<Push1, 1, Push0, Sstore>>,
     <<Push1, 1, Push0, Sstore, Push0, Push0, Sstore>>}

\* gas limits around the points where the base or the dynamic charge of the
\* SSTOREs above stops being affordable
SstoreGasLimits ==
    {GAS_SLOAD + k + d :
        k \in 3..6,
        d \in {0, GAS_SSTORE_RESET, GAS_SSTORE_SET,
               GAS_SSTORE_SET + GAS_SLOAD + 2 * GAS_BASE,
               GAS_SSTORE_SET + GAS_SLOAD + 2 * GAS_BASE + GAS_SSTORE_CLEAR}}

\* programs about storage and sub-calls.  The first kind stores 7 at key 1,
\* fills memory word 0 with ones, calls a (return area at offset 1), then
\* reads what the call left: RETURNDATASIZE, storage keys 2 and 1, MSIZE.
\* The second kind calls an account without code after a call that
\* returned data.  The third kind writes zero and non-zero values to keys.
\* The fourth kind calls with a return offset above usize::MAX.  The fifth
\* kind hands a storage that holds zero at key 1 to a child.
StorageProgram(op, a, value, rs) ==
    <<Push1, 7, Push1, 1, Sstore>> \o PushWord(MaxWord) \o <<Push0, Mstore>>
        \o CallOp(op, a, value, 1, rs)
        \o <<Returndatasize, Push1, 2, Sload, Push1, 1, Sload, Msize, Stop>>

\* a call with an argument range and the return area [1, 1 + rs), made
\* with a word below its operands, a written storage and memory and a
\* return-data buffer that is not empty
ArgsProgram(op, a, rs, args_size, args_offset) ==
    <<Push1, 5, Push1, 7, Push1, 1, Sstore>>
        \o PushWord(MaxWord) \o <<Push0, Mstore>>
        \o CallOp(Staticcall, Addr.ReturnsByte, 0, 0, 1)
        \o <<Push1, rs, Push1, 1, Push1, args_size, Push1, args_offset>>
        \o (IF op = Call THEN <<Push0>> ELSE <<>>)
        \o Push2Of(a) \o <<Push0, op, Stop>>

StoragePrograms ==
    {StorageProgram(op, a, value, rs) :
        op \in {Call, Delegatecall, Staticcall},
        a \in {Addr.CopiesSlot, Addr.ReturnsSlot, Addr.ReturnsTwoBytes,
               Addr.StoresThenReverts, Addr.RevertsWithByte,
               Addr.DelegatesCopy, Addr.EmptyCode, Addr.Absent},
        value \in {0, 3}, rs \in 0..3}
    \cup {CallOp(Staticcall, Addr.ReturnsByte, 0, 0, 1)
            \o CallOp(op, a, 0, 0, 0) \o <<Returndatasize, Stop>> :
            op \in {Call, Delegatecall, Staticcall},
            a \in {Addr.EmptyCode, Addr.Absent, Addr.LeadingZeroKey}}
    \cup {<<Push1, 1, Sload,
            Push0, Push1, 1, Sstore, Push1, 1, Sload,
            Push1, 4, Push1, 2, Sstore, Push1, 1, Sload,
            Push1, v, Push1, 1, Sstore, Push1, 1, Sload,
            Push0, Push1, w, Sstore, Push1, 1, Sload, Push1, 2, Sload,
            Push1, 5, Push1, 1, Sstore, Push1, 1, Sload, Stop>> :
            v \in {0, 3}, w \in {1, 2}}
    \cup {CallOp(op, a, 0, MaxWord, 0) \o <<Stop>> :
            op \in {Call, Delegatecall, Staticcall},
            a \in {FamilyAddress(0, Pop), Addr.ReturnsByte}}
    \cup {<<Push0, Push1, 1, Sstore>> \o CallOp(op, Addr.CopiesSlot, 0, 0, 0)
            \o <<Push1, 2, Sload, Stop>> :
            op \in {Call, Delegatecall, Staticcall}}
    \cup {ArgsProgram(op, a, rs, args_size, args_offset) :
            op \in {Call, Delegatecall, Staticcall},
            a \in {Addr.ReturnsTwoBytes, Addr.CopiesSlot, Addr.RevertsWithByte},
            rs \in {0, 1, 3}, args_size \in {0, 3},
            args_offset \in {0, WordBytes + 1}}
    \* LOG0 before and after a call to a child that emits a LOG0 or a LOG1
    \cup {<<Push1, 5, Push1, 2, Push0, Log0>>
            \o CallOp(op, FamilyAddress(n, b), 0, 0, 0)
            \o <<Push0, Push0, Log0, Stop>> :
            op \in {Call, Delegatecall, Staticcall},
            n \in {2, 3}, b \in {Log0, Log1}}

Scenario(code, gas_limit, overflow_checks) ==
    [code |-> code, gas_limit |-> gas_limit,
     overflow_checks |-> overflow_checks]

Scenarios ==
    {Scenario(c, DEFAULT_GAS_LIMIT, TRUE) :
        c \in OneOpcodePrograms \cup StaticFamilyCallers
              \cup OtherFamilyCallers \cup HandWrittenCallers
              \cup ArithPrograms \cup StackPrograms \cup StoragePrograms
              \cup {SwapProgram(n, d) : n \in 1..16, d \in 1..19}
              \cup {PushProgram(n, k, tail) :
                        n \in 1..32, k \in 0..32, tail \in {<<>>, <<Pc>>}}}
    \cup {Scenario(c, JumpGasLimit, TRUE) : c \in JumpPrograms}
    \cup {Scenario(c, DEFAULT_GAS_LIMIT, oc) :
            c \in MemPrograms \cup MemoryPrograms, oc \in BOOLEAN}
    \cup {Scenario(c, g, TRUE) : c \in GasPrograms, g \in 0..SmallGasMax}
    \cup {Scenario(c, g, TRUE) : c \in SstorePrograms, g \in SstoreGasLimits}

\* EvmConfig::default with the scenario's gas limit; the addresses are cut to
\* the word: the low digits of the default to, the leading ones of from
EvmConfig(s) ==
    [gas_limit |-> s.gas_limit,
     overflow_checks |-> s.overflow_checks,
     to |-> FromHex(<<10, 10, 10>>),
     from |-> FromHex(<<1, 14, 7, 9>>),
     value |-> 0,
     data |-> <<>>]

NoResult ==
    [success |-> FALSE, gas_used |-> 0, stack |-> <<>>,
     return_data |-> <<>>, logs |-> <<>>]

(***************************************************************************)
(* The state machine.  frames is the chain of run loops that are active:   *)
(* frames[1] is the one of Evm::execute, the last one is running.          *)
(***************************************************************************)
Top == frames[Len(frames)]

SetTop(f) == [frames EXCEPT ![Len(frames)] = f]

\* the body of the run loop for the outcome o of step:
\* if let Err(_) = state.step() { state.reverted = true; break; }
run_iteration(o) ==
    IF o.err # "none" THEN [o.f EXCEPT !.reverted = TRUE, !.err = o.err]
    ELSE o.f

Init ==
    \E s \in Scenarios :
        /\ config = EvmConfig(s)
        /\ frames = <<[new(s.code, EvmConfig(s)) EXCEPT !.id = 1]>>
        /\ nextId = 2
        /\ fault = "none"
        /\ done = FALSE
        /\ result = NoResult

\* one iteration of the run loop of the running frame, for a step that
\* runs no child
Step ==
    /\ ~done /\ fault = "none"
    /\ status(Top) = "Running"
    /\ ~SpawnsChild(Top)
    /\ LET o == step(Top) IN
       /\ fault' = o.fault
       /\ frames' = SetTop(run_iteration(o))
    /\ UNCHANGED <<done, result, config, nextId>>

\* a step that reaches the run of a child: the child's run loop starts on
\* top of the caller's, unless the host stack has no room for it
CallEnter ==
    /\ ~done /\ fault = "none"
    /\ SpawnsChild(Top)
    /\ LET b == Top.code[Top.program_counter + 1]
           plan == CallPlan(consume(Top, gas_cost(b)).f, b)
       IN  IF Len(frames) >= HostStackFrames
           THEN /\ fault' = "stack"
                /\ frames' = SetTop(plan.out.f)
                /\ UNCHANGED nextId
           ELSE /\ frames' = Append(SetTop(plan.out.f),
                                    [plan.child EXCEPT !.id = nextId,
                                                       !.kind = b])
                /\ nextId' = nextId + 1
                /\ UNCHANGED fault
    /\ UNCHANGED <<done, result, config>>

\* the child's run loop has ended: the rest of the caller's handler and of
\* its step
CallReturn ==
    /\ ~done /\ fault = "none"
    /\ Len(frames) >= 2
    /\ status(Top) # "Running"
    /\ LET o == call_finish(frames[Len(frames) - 1], Top) IN
       /\ fault' = o.fault
       /\ frames' = Append(SubSeq(frames, 1, Len(frames) - 2),
                           run_iteration(o))
    /\ UNCHANGED <<done, result, config, nextId>>

\* Evm::execute returns state.result()
Finish ==
    /\ ~done /\ fault = "none"
    /\ Len(frames) = 1
    /\ status(Top) # "Running"
    /\ done' = TRUE
    /\ result' = EvmResult(Top)
    /\ UNCHANGED <<frames, fault, config, nextId>>

Next == Step \/ CallEnter \/ CallReturn \/ Finish

Spec == Init /\ [][Next]_vars

(***************************************************************************)
(* Properties.                                                             *)
(***************************************************************************)
Frames == {frames[i] : i \in 1..Len(frames)}

\* the opcode the running frame is about to execute
AtOpcode(f) == f.code[f.program_counter + 1]

\* f is about to execute an opcode and can pay its base cost
Charged(f) ==
    /\ ~done /\ fault = "none"
    /\ status(f) = "Running"
    /\ f.program_counter < Len(f.code)
    /\ from_byte(AtOpcode(f))
    /\ IsOk(consume(f, gas_cost(AtOpcode(f))))

\* C1: Evm::execute always returns an EvmResult: no opcode makes the host
\* abort, neither by a panic (an operand that does not fit usize or u32, an
\* arithmetic intermediate outside the word range) nor by an allocation the
\* host cannot serve.
C1_NoHostAbort == fault \notin {"panic", "alloc"}

\* C2: every top-level execute terminates with bounded frame nesting: the
\* chain of nested frames never holds more than 1024 frames and the host
\* stack is never exhausted by nesting.
C2_BoundedNesting == Len(frames) <= 1024 /\ fault # "stack"

\* opcodes that pop nothing and push one word
PushOnlyOps ==
    {Push0, Address, Caller, Callvalue, Calldatasize, Returndatasize,
     Codesize, Msize, Gas, Pc}

\* f is about to push onto a stack of depth MAX_SIZE
PushAtFullStack(f) ==
    /\ Charged(f)
    /\ Len(f.stack) = MAX_SIZE
    /\ LET b == AtOpcode(f) IN
       \/ b \in PushOnlyOps
       \/ IsDup(b)
       \/ IsPush(b) /\ f.program_counter + ((b - Push1) + 1) < Len(f.code)

\* C3: the stack of every frame holds at most 1024 words in every state, and
\* an opcode that would push onto a stack of depth 1024 fails with
\* StackOverflow, leaves the depth at 1024 and the frame reverted.
C3_StackDepth ==
    [][/\ \A i \in 1..Len(frames') : Len(frames'[i].stack) <= MAX_SIZE
       /\ PushAtFullStack(Top) =>
            /\ Len(frames') = Len(frames)
            /\ Top'.err = "StackOverflow"
            /\ Top'.reverted
            /\ Len(Top'.stack) = MAX_SIZE]_vars

\* a frame that failed with StackOverflow at depth 1024
C3_Witness ==
    \E f \in Frames :
        f.err = "StackOverflow" /\ f.reverted /\ Len(f.stack) = MAX_SIZE

\* the number of words the handler of b pops (for DUPn and SWAPn: the
\* depth it requires)
Needs(b) ==
    IF IsArith(b) THEN ArithPops(b)
    ELSE IF IsDup(b) THEN (b - Dup1) + 1
    ELSE IF IsSwap(b) THEN (b - Swap1) + 2
    ELSE IF IsLog(b) THEN 2 + (b - Log0)
    ELSE IF b \in {Pop, Mload, Jump, Sload} THEN 1
    ELSE IF b \in {Mstore, Mstore8, Jumpi, Sstore, Return, Revert} THEN 2
    ELSE IF b \in {Delegatecall, Staticcall} THEN 6
    ELSE IF b = Call THEN 7
    ELSE 0

\* C4: an opcode whose base cost is paid and that finds fewer words on the
\* stack than it needs fails with exactly StackUnderflow and leaves the frame
\* reverted, in static and non-static frames alike.
C4_StackUnderflow ==
    [][(Charged(Top) /\ Len(Top.stack) < Needs(AtOpcode(Top))) =>
            /\ Len(frames') = Len(frames)
            /\ Top'.err = "StackUnderflow"
            /\ Top'.reverted]_vars

\* C5: in every frame gas_used never decreases and never exceeds gas_limit;
\* a charge of n (the base cost in step, the dynamic cost of SSTORE) is
\* accepted iff gas_used + n <= gas_limit, and a rejected charge leaves
\* gas_used as it was.
C5_GasAccounting ==
    [][/\ \A i \in 1..Len(frames') : frames'[i].gas_used <= frames'[i].gas_limit
       /\ \A i \in 1..Len(frames) :
            (i <= Len(frames') /\ frames'[i].id = frames[i].id) =>
                frames'[i].gas_used >= frames[i].gas_used
       /\ (/\ ~done /\ fault = "none" /\ status(Top) = "Running"
           /\ Top.program_counter < Len(Top.code)
           /\ from_byte(AtOpcode(Top))) =>
            LET f == Top
                g == frames'[Len(frames)]
                n == gas_cost(AtOpcode(f))
                d == sstore_gas_cost(storage_get(f.storage, Popped(f, 1)),
                                     Popped(f, 2))
            IN  IF f.gas_used + n > f.gas_limit
                THEN g.err = "OutOfGas" /\ g.gas_used = f.gas_used
                ELSE IF AtOpcode(f) = Sstore /\ ~f.static_context
                        /\ Len(f.stack) >= 2
                THEN IF f.gas_used + n + d > f.gas_limit
                     THEN g.err = "OutOfGas" /\ g.gas_used = f.gas_used + n
                     ELSE g.err = "none" /\ g.gas_used = f.gas_used + n + d
                ELSE g.err # "OutOfGas" /\ g.gas_used = f.gas_used + n]_vars

\* a frame whose SSTORE paid the base charge and was refused the dynamic
\* one, after two accepted charges
C5_Witness ==
    \E f \in Frames :
        /\ f.code = <<Push0, Push0, Sstore>>
        /\ f.err = "OutOfGas"
        /\ f.gas_used = 2 * GAS_BASE + GAS_SLOAD
        /\ f.gas_used < f.gas_limit

\* C6: a frame that failed with OutOfGas ends with success = false and an
\* empty return_data in its result, whatever a sub-call left in its
\* return-data buffer.
C6_OutOfGasNoOutput ==
    \A f \in Frames :
        f.err = "OutOfGas" =>
            ~EvmResult(f).success /\ EvmResult(f).return_data = <<>>

\* the JUMPDEST set of the scan rule: the positions holding 0x5b that the walk
\* from position pos reaches as instruction boundaries
RECURSIVE JumpdestScan(_, _)
JumpdestScan(code, pos) ==
    IF pos >= Len(code) THEN {}
    ELSE LET b == code[pos + 1] IN
         IF b >= Push1 /\ b <= Push32
         THEN JumpdestScan(code, pos + 1 + ((b - Push1) + 1))
         ELSE (IF b = Jumpdest THEN {pos} ELSE {})
                 \cup JumpdestScan(code, pos + 1)

\* C7: JUMP(d) sets pc to d iff d is in the JUMPDEST set of the scan rule;
\* for every other d it fails with InvalidJumpDestination and the frame ends
\* reverted.
C7_Jump ==
    [][(Charged(Top) /\ AtOpcode(Top) = Jump /\ Len(Top.stack) >= 1) =>
            LET d == Popped(Top, 1) IN
            /\ Len(frames') = Len(frames)
            /\ IF d \in JumpdestScan(Top.code, 0)
               THEN /\ fault' = "none" /\ Top'.err = "none"
                    /\ ~Top'.reverted
                    /\ Top'.program_counter = d
               ELSE /\ fault' = "none"
                    /\ Top'.err = "InvalidJumpDestination"
                    /\ Top'.reverted]_vars

\* C8: JUMPI(dest, cond) with cond = 0 goes on at pc + 1 without looking at
\* dest; with cond # 0 it does what JUMP(dest) does on the same frame, and
\* where that succeeds pc is dest after the step, with no increment on top,
\* whatever earlier JUMPIs did.
C8_Jumpi ==
    [][(Charged(Top) /\ AtOpcode(Top) = Jumpi /\ Len(Top.stack) >= 2) =>
            LET f == Top
                dest == Popped(f, 1)
                cond == Popped(f, 2)
                paid == consume(f, gas_cost(Jumpi)).f
                j == exec_Jump([paid EXCEPT !.stack =
                                   Append(SubSeq(@, 1, Len(@) - 2), dest)])
            IN  /\ Len(frames') = Len(frames)
                /\ IF cond = 0
                   THEN /\ fault' = "none" /\ Top'.err = "none"
                        /\ ~Top'.reverted
                        /\ Top'.program_counter = f.program_counter + 1
                   ELSE /\ fault' = j.fault
                        /\ Top'.err = j.err
                        /\ Top'.stack = j.f.stack
                        /\ Top'.reverted = (j.err # "none")
                        /\ (IsOk(j) => Top'.program_counter = dest)]_vars

\* a second JUMPI was taken: the frame stands on the JUMPDEST behind the
\* second JUMPI of a two-JUMPI program, having paid for both
C8_Witness ==
    \E f \in Frames :
        /\ f.last_jumpi_jumped
        /\ f.program_counter = 13
        /\ f.program_counter < Len(f.code)
        /\ AtOpcode(f) = Jumpdest
        /\ f.gas_used >= 2 * (2 * GAS_VERY_LOW + GAS_MID)

\* C9: in a static frame every SSTORE and every LOG0..LOG4 reverts the frame,
\* changes no storage entry and appends no log record.
C9_StaticNoWrites ==
    [][(/\ Charged(Top) /\ Top.static_context
        /\ (AtOpcode(Top) = Sstore \/ IsLog(AtOpcode(Top)))) =>
            /\ Len(frames') = Len(frames)
            /\ Top'.reverted
            /\ Top'.storage = Top.storage
            /\ Top'.logs = Top.logs]_vars

\* C10: a child frame is static iff its caller is static or it was created by
\* STATICCALL; in a static frame a CALL with zero value and a DELEGATECALL
\* are not rejected (only a CALL with non-zero value is); every frame nested
\* under a STATICCALL is static.
C10_StaticInheritance ==
    [][/\ (Len(frames') = Len(frames) + 1) =>
            (Top'.static_context =
                (Top.static_context \/ AtOpcode(Top) = Staticcall))
       /\ \A i \in 1..Len(frames') : \A j \in i..Len(frames') :
            (i >= 2 /\ frames'[i].kind = Staticcall) =>
                frames'[j].static_context
       /\ (/\ Charged(Top) /\ Top.static_context
           /\ AtOpcode(Top) \in {Call, Delegatecall}
           /\ Len(Top.stack) >= call_pops(AtOpcode(Top))
           /\ (AtOpcode(Top) = Call => Popped(Top, 3) = 0)) =>
            (fault' = "none" => ~frames'[Len(frames)].reverted)]_vars

\* a child's run loop has ended and its caller is about to resume
Returning ==
    /\ ~done /\ fault = "none"
    /\ Len(frames) >= 2
    /\ status(Top) # "Running"

\* the caller of the running frame, before and after it resumes
Parent == frames[Len(frames) - 1]
Resumed == frames'[Len(frames) - 1]

\* a and b hold the same value at every key
SameStorage(a, b) ==
    \A k \in (DOMAIN a) \cup (DOMAIN b) : storage_get(a, k) = storage_get(b, k)

\* C11: when a child ends reverted (by REVERT or by an error) the caller
\* resumes with 0 pushed and with the storage it had before the call, for
\* CALL, DELEGATECALL and STATICCALL alike.
C11_RevertDiscardsStorage ==
    [][(Returning /\ Top.reverted /\ fault' = "none") =>
            /\ Resumed.stack[Len(Resumed.stack)] = 0
            /\ SameStorage(Resumed.storage, Parent.storage)]_vars

\* C12: the child of a DELEGATECALL starts with the caller's storage as it
\* stands at the call; an SLOAD pushes the value its frame's storage holds
\* at the key; when the child of a DELEGATECALL ends successfully the
\* caller resumes with 1 pushed and with the child's storage, so the
\* child's writes are what the caller's later SLOADs read.
C12_DelegatecallSharesStorage ==
    [][/\ (Len(frames') = Len(frames) + 1 /\ Top'.kind = Delegatecall) =>
            Top'.storage = Top.storage
       /\ (/\ Charged(Top) /\ AtOpcode(Top) = Sload
           /\ Len(Top.stack) >= 1) =>
            /\ Top'.stack[Len(Top.stack)] =
                    storage_get(Top.storage, Popped(Top, 1))
            /\ Top'.storage = Top.storage
       /\ (/\ Returning /\ Top.kind = Delegatecall /\ ~Top.reverted
           /\ fault' = "none") =>
            /\ Resumed.stack[Len(Resumed.stack)] = 1
            /\ Resumed.storage = Top.storage]_vars

\* the caller stored 7 at key 1, its DELEGATECALL child copied key 1 to
\* key 2, and the caller has read 7 at key 2 and at key 1
C12_Witness ==
    /\ Len(frames) = 1
    /\ Top.code = StorageProgram(Delegatecall, Addr.CopiesSlot, 0, 0)
    /\ Top.halted
    /\ SubSeq(Top.stack, 1, 4) = <<1, 0, 7, 7>>

\* the child does not read at any key the non-zero value the caller holds
\* there
HidesStorage(child, caller) ==
    \A k \in DOMAIN caller.storage :
        caller.storage[k] # 0 =>
            storage_get(child.storage, k) # caller.storage[k]

\* C13: the child of a CALL or STATICCALL runs with the target as its
\* address and, unless the target is the caller itself, does not read the
\* values the caller stored; the child of a DELEGATECALL runs with the
\* caller's address, call value and storage.
C13_ContextBinding ==
    [][(Len(frames') = Len(frames) + 1) =>
            LET target == to_address(Popped(Top, 2)) IN
            /\ (Top'.kind \in {Call, Staticcall}) =>
                    /\ Top'.address = target
                    /\ (target # Top.address => HidesStorage(Top', Top))
            /\ (Top'.kind = Delegatecall) =>
                    /\ Top'.address = Top.address
                    /\ Top'.callvalue = Top.callvalue
                    /\ Top'.storage = Top.storage]_vars

\* C14: when a child's run has ended the caller resumes running at the
\* instruction after the call with 1 pushed iff the child ended
\* successfully and 0 pushed iff it ended reverted (by REVERT or by any
\* error); the child's end never ends the caller.
C14_CallPushesOutcome ==
    [][Returning =>
            /\ fault' = "none"
            /\ Resumed.stack = Append(Parent.stack, Bool(~Top.reverted))
            /\ status(Resumed) = "Running"
            /\ Resumed.program_counter = Parent.program_counter + 1]_vars

\* the byte of memory m at index i; bytes beyond the buffer read as zero
ByteAt(m, i) == IF i < Len(m.data) THEN m.data[i + 1] ELSE 0

CallsNoCode ==
    /\ Charged(Top)
    /\ IsCallOp(AtOpcode(Top))
    /\ ~(call_checks_static(AtOpcode(Top)) /\ Top.static_context)
    /\ Len(Top.stack) >= call_pops(AtOpcode(Top))
    /\ contract_code_of(test_state, Popped(Top, 2)) = <<>>

\* C16: a CALL, DELEGATECALL or STATICCALL whose target is absent or has
\* empty code runs no child, replaces its operands by 0, leaves the caller
\* with an empty return-data buffer, and the caller continues at the next
\* instruction.
C16_EmptyTarget ==
    [][CallsNoCode =>
            /\ Len(frames') = Len(frames)
            /\ fault' = "none"
            /\ Top'.stack =
                    Append(Drop(Top, call_pops(AtOpcode(Top))).stack, 0)
            /\ Top'.return_data = <<>>
            /\ status(Top') = "Running"
            /\ Top'.program_counter = Top.program_counter + 1]_vars

\* C17: the gas limit of a child is the smaller of the gas argument the call
\* popped and the gas the caller has left at the call (counted before or
\* after the call's base cost).
C17_ChildGasLimit ==
    [][(Len(frames') = Len(frames) + 1) =>
            LET gas == Popped(Top, 1)
                cost == gas_cost(AtOpcode(Top))
            IN  Top'.gas_limit \in {Min(gas, remaining(Top)),
                                    Min(gas, remaining(Top) - cost)}]_vars

\* the gas used by the first n frames of fs together
RECURSIVE GasOfFrames(_, _)
GasOfFrames(fs, n) ==
    IF n = 0 THEN 0 ELSE GasOfFrames(fs, n - 1) + fs[n].gas_used

\* C18: when a caller resumes after a child has run, its gas_used is what
\* it was with the call's base cost charged plus the gas the child used;
\* the gas used by all the frames together never exceeds the gas limit of
\* the top-level execution.
C18_ChildGasCharged ==
    [][/\ (Returning /\ fault' = "none") =>
            Resumed.gas_used = Parent.gas_used + Top.gas_used
       /\ GasOfFrames(frames', Len(frames')) <= config.gas_limit]_vars

\* the running frame is not static and its next step is an SSTORE that
\* succeeds
SstoreSucceeds ==
    /\ Charged(Top) /\ AtOpcode(Top) = Sstore /\ ~Top.static_context
    /\ IsOk(step(Top))

WithoutZeros(st) == [k \in {j \in DOMAIN st : st[j] # 0} |-> st[k]]
NoZeros(f) == [f EXCEPT !.storage = WithoutZeros(@)]

MemRange == 0..(HostMemBytes + WordBytes)

\* byte j (0 is the most significant) of the word w
ByteOfWord(w, j) == (w \div Pow2(8 * (WordBytes - 1 - j))) % 256

\* the running frame's next step executes an opcode to its end
Completes ==
    /\ Charged(Top) /\ ~SpawnsChild(Top)
    /\ fault' = "none" /\ ~Top'.reverted

\* C21: memory behaves as an infinite byte array that starts as zeros.
\* Stated step by step, for every opcode that runs to its end: MSTORE(off,
\* w) sets the bytes from off on to the big-endian bytes of w, MSTORE8(off,
\* v) sets the byte at off to the low byte of v, and both leave every other
\* byte alone; MLOAD(off) pushes the word whose big-endian bytes are the
\* bytes from off on (so MLOAD(off) right after MSTORE(off, w) pushes w);
\* no other opcode changes a byte.
C21_MemoryBytes ==
    [][Completes =>
            LET b == AtOpcode(Top)
                off == Popped(Top, 1)
                m == Top.memory
                m2 == Top'.memory
            IN  /\ (b = Mstore) =>
                    \A i \in MemRange :
                        ByteAt(m2, i) =
                            IF off <= i /\ i < off + WordBytes
                            THEN ByteOfWord(Popped(Top, 2), i - off)
                            ELSE ByteAt(m, i)
                /\ (b = Mstore8) =>
                    \A i \in MemRange :
                        ByteAt(m2, i) =
                            IF i = off THEN Popped(Top, 2) % 256
                            ELSE ByteAt(m, i)
                /\ (b = Mload) =>
                    \A j \in 0..(WordBytes - 1) :
                        ByteOfWord(Top'.stack[Len(Top'.stack)], j) =
                            ByteAt(m, off + j)
                /\ (b \notin {Mstore, Mstore8}) =>
                    \A i \in MemRange : ByteAt(m2, i) = ByteAt(m, i)]_vars

\* the end off + size of the memory access the opcode b makes with the
\* operands on the stack of f: 0 for an opcode that makes none
AccessEnd(f, b) ==
    IF b \in {Mload, Mstore} THEN Popped(f, 1) + WordBytes
    ELSE IF b = Mstore8 THEN Popped(f, 1) + 1
    ELSE IF IsLog(b) \/ b \in {Return, Revert}
    THEN Popped(f, 1) + Popped(f, 2)
    ELSE 0

\* C22: MSIZE pushes the word size times ceil(E / word size), where E is
\* the largest off + size over the memory reads and writes the frame has
\* made (0 when it made none, or only accesses of length zero at offset
\* 0).  Stated step by step, with the length of the frame's buffer as E:
\* every opcode that runs to its end leaves E the larger of E and the end
\* of its access, and MSIZE pushes E rounded up to whole words.
C22_Msize ==
    [][Completes =>
            LET b == AtOpcode(Top)
                E == Len(Top.memory.data)
            IN  /\ Len(Top'.memory.data) = Max(E, AccessEnd(Top, b))
                /\ (b = Msize) =>
                        Top'.stack[Len(Top'.stack)] =
                            WordBytes * ((E + WordBytes - 1) \div WordBytes)]_vars

\* C23: on a stack of depth at least n + 1, SWAPn exchanges the top element
\* with the element n positions below the top and leaves every other
\* element and the depth unchanged.
C23_SwapTop ==
    [][(/\ Charged(Top) /\ IsSwap(AtOpcode(Top))
        /\ Len(Top.stack) >= AtOpcode(Top) - Swap1 + 2) =>
            LET n == AtOpcode(Top) - Swap1 + 1
                s == Top.stack
                d == Len(s)
            IN  /\ fault' = "none" /\ ~Top'.reverted
                /\ Top'.stack =
                        [i \in 1..d |->
                            IF i = d THEN s[d - n]
                            ELSE IF i = d - n THEN s[d]
                            ELSE s[i]]]_vars

\* C24: on a stack of depth at least n + 1, two SWAPn in a row leave the
\* stack as it was: after PUSH1 1 .. PUSH1 d, SWAPn, SWAPn the stack is
\* 1 .. d again.
C24_SwapTwice ==
    LET d == (Len(Top.code) - 3) \div 2
        n == Top.code[Len(Top.code) - 1] - Swap1 + 1
    IN  (/\ Len(Top.code) >= 7
         /\ n \in 1..16 /\ d >= n + 1
         /\ Top.code = SwapProgram(n, d)
         /\ Top.program_counter >= 2 * d + 2) =>
            /\ ~Top.reverted
            /\ Top.stack = [i \in 1..d |-> i]

\* SWAP3 has changed a stack of depth 5, and a second SWAP3 has run
C24_Witness ==
    /\ Top.code = SwapProgram(3, 5)
    /\ Top.halted
    /\ Top.stack = <<1, 2, 3, 4, 5>>

\* C25: PUSHn at position pc with at least n bytes after it pushes the word
\* whose big-endian bytes are code[pc+1 .. pc+n] (the low bytes of it, in a
\* word shorter than n bytes) and the next instruction is fetched at
\* pc + n + 1; with fewer than n bytes after it the frame ends reverted and
\* the stack is what it was.
C25_Push ==
    [][(/\ Charged(Top) /\ IsPush(AtOpcode(Top))
        /\ Len(Top.stack) < MAX_SIZE) =>
            LET n == AtOpcode(Top) - Push1 + 1
                pc == Top.program_counter
                d == Len(Top.stack)
            IN  /\ fault' = "none"
                /\ (pc + n < Len(Top.code)) =>
                        /\ ~Top'.reverted
                        /\ Top'.program_counter = pc + n + 1
                        /\ SubSeq(Top'.stack, 1, d) = Top.stack
                        /\ Len(Top'.stack) = d + 1
                        /\ \A j \in 0..(WordBytes - 1) :
                                ByteOfWord(Top'.stack[d + 1], j) =
                                    IF j >= WordBytes - n
                                    THEN Top.code[pc + 2 + n - (WordBytes - j)]
                                    ELSE 0
                /\ (pc + n >= Len(Top.code)) =>
                        /\ Top'.reverted
                        /\ Top'.stack = Top.stack]_vars

\* PUSH2 fe fd has pushed 0xfefd and the next fetch is at position 3, where
\* PC runs
C25_Witness ==
    /\ Top.code = PushProgram(2, 2, <<Pc>>)
    /\ Top.halted
    /\ Top.stack = <<254 * 256 + 253, 3>>

\* C26: a STOP whose base charge is accepted halts the frame successfully:
\* the frame's result has success = true and the stack STOP found, and
\* gas_used has grown by exactly 2.  The run of the code [0x00] under a gas
\* limit of at least 2 returns success = true, an empty stack and
\* gas_used = 2.
C26_Stop ==
    [][/\ (Charged(Top) /\ AtOpcode(Top) = Stop) =>
            /\ fault' = "none"
            /\ status(Top') = "Halted"
            /\ EvmResult(Top').success
            /\ EvmResult(Top').stack = EvmResult(Top).stack
            /\ EvmResult(Top').gas_used = Top.gas_used + 2
       /\ (done' /\ frames'[1].code = <<Stop>> /\ config.gas_limit >= 2) =>
            /\ result'.success
            /\ result'.stack = <<>>
            /\ result'.gas_used = 2]_vars

\* the run of [0x00] under a gas limit of 2, all of it spent by STOP, has
\* returned its result
C26_Witness ==
    /\ done /\ frames[1].code = <<Stop>> /\ config.gas_limit = 2
    /\ result.success /\ result.stack = <<>> /\ result.gas_used = 2

\* the running frame ends in this step, which runs no child
Ends ==
    /\ ~done /\ fault = "none" /\ fault' = "none"
    /\ status(Top) = "Running"
    /\ Len(frames') = Len(frames)
    /\ status(Top') # "Running"

\* the child has returned in this step and the caller's handler has run to
\* its end
AfterCall ==
    /\ ~done /\ fault = "none" /\ fault' = "none"
    /\ Len(frames') < Len(frames)

AtEnd(f) == f.program_counter >= Len(f.code)

\* C27: the result of a frame has success = true iff the frame ended by
\* STOP, by RETURN or by its pc reaching the end of the code, and the last
\* of these charges no gas and leaves the stack as it was; success is false
\* iff the frame ended by REVERT or by an error, and gas_used is then the
\* gas used before the last instruction plus the charges of that
\* instruction that were accepted: no less than before, with the base cost
\* if that was accepted, and never above the limit.  No frame ends in the
\* step in which its child returns.
C27_Success ==
    [][/\ Ends =>
            LET r == EvmResult(Top') IN
            /\ r.success <=>
                    \/ AtEnd(Top)
                    \/ /\ ~AtEnd(Top) /\ AtOpcode(Top) \in {Stop, Return}
                       /\ Top'.err = "none"
            /\ ~r.success <=>
                    \/ ~AtEnd(Top) /\ AtOpcode(Top) = Revert
                    \/ Top'.err # "none"
            /\ AtEnd(Top) =>
                    /\ r.gas_used = Top.gas_used
                    /\ r.stack = EvmResult(Top).stack
            /\ ~r.success =>
                    /\ r.gas_used >= Top.gas_used
                    /\ r.gas_used <= Top.gas_limit
                    /\ Charged(Top) =>
                            r.gas_used >= Top.gas_used + gas_cost(AtOpcode(Top))
       /\ AfterCall => status(Top') = "Running"
       /\ (done' /\ ~done) => result' = EvmResult(Top)]_vars

\* PUSH1 fe has run to the end of its code: the result is a success with
\* the pushed word and the 3 gas of the PUSH1
C27_Witness ==
    /\ done /\ frames[1].code = PushProgram(1, 1, <<>>)
    /\ result.success /\ result.stack = <<254>> /\ result.gas_used = 3

\* the running frame fetches a byte in this step
Fetches ==
    /\ ~done /\ fault = "none"
    /\ status(Top) = "Running"
    /\ ~AtEnd(Top)

SameEffects(f, g) ==
    /\ g.stack = f.stack
    /\ g.memory = f.memory
    /\ g.storage = f.storage
    /\ g.logs = f.logs

\* C28: fetching a byte that is not in the opcode table ends the frame
\* with InvalidOpcode and success = false and charges no gas for it;
\* fetching CREATE, CREATE2, CALLCODE or SELFDESTRUCT ends the frame
\* reverted with the stack, the memory, the storage and the logs as they
\* were.
C28_Undecoded ==
    [][/\ (Fetches /\ ~from_byte(AtOpcode(Top))) =>
            /\ fault' = "none"
            /\ Top'.err = "InvalidOpcode"
            /\ ~EvmResult(Top').success
            /\ Top'.gas_used = Top.gas_used
            /\ SameEffects(Top, Top')
       /\ (Fetches /\ AtOpcode(Top) \in
                        {Create, Create2, Callcode, Selfdestruct}) =>
            /\ fault' = "none"
            /\ status(Top') = "Reverted"
            /\ ~EvmResult(Top').success
            /\ SameEffects(Top, Top')]_vars

\* the byte fe fetched after two PUSH1 has ended the frame with
\* InvalidOpcode and the 6 gas of the pushes
C28_Witness ==
    /\ Top.code = OpWithPushes(2, 254)
    /\ Top.err = "InvalidOpcode"
    /\ Top.reverted
    /\ Top.gas_used = 6
    /\ Top.stack = <<1, 1>>

\* C29: GAS pushes the gas that remains, gas_limit - gas_used, once its own
\* base cost of 2 has been charged.
C29_Gas ==
    [][(/\ Charged(Top) /\ AtOpcode(Top) = Gas
        /\ Len(Top.stack) < MAX_SIZE) =>
            /\ fault' = "none"
            /\ ~Top'.reverted
            /\ Len(Top'.stack) = Len(Top.stack) + 1
            /\ Top'.stack[Len(Top'.stack)] =
                    Top.gas_limit - (Top.gas_used + 2)]_vars

\* C30: RETURN(off, size) ends the frame with success = true and REVERT(off,
\* size) with success = false, both with return_data equal to the bytes
\* memory[off .. off + size) as they were (zero where the memory was never
\* written), and neither changes the storage or the logs.
C30_ReturnData ==
    [][(/\ Charged(Top) /\ AtOpcode(Top) \in {Return, Revert}
        /\ Len(Top.stack) >= 2 /\ fault' = "none") =>
            LET off == Popped(Top, 1)
                size == Popped(Top, 2)
            IN  /\ Top'.err = "none"
                /\ status(Top') =
                        IF AtOpcode(Top) = Return THEN "Halted" ELSE "Reverted"
                /\ EvmResult(Top').success = (AtOpcode(Top) = Return)
                /\ Len(Top'.return_data) = size
                /\ \A i \in 1..size :
                        Top'.return_data[i] = ByteAt(Top.memory, off + i - 1)
                /\ Top'.storage = Top.storage
                /\ Top'.logs = Top.logs]_vars

\* the running frame's next step executes the opcode b with at least n
\* operands on the stack
Executes(b, n) ==
    /\ Charged(Top) /\ AtOpcode(Top) = b /\ Len(Top.stack) >= n

\* the step has popped n words and pushed the word v
Replaces(n, v) ==
    /\ fault' = "none"
    /\ ~Top'.reverted
    /\ Top'.stack = Append(SubSeq(Top.stack, 1, Len(Top.stack) - n), v)

\* (a * b) mod m over the integers, by doubling a
RECURSIVE TimesMod(_, _, _)
TimesMod(a, b, m) ==
    IF b = 0 THEN 0
    ELSE (TimesMod((2 * (a % m)) % m, b \div 2, m)
            + (IF b % 2 = 1 THEN a % m ELSE 0)) % m

\* C31: ADD, SUB and MUL pop a (the top) and b and push a + b, a - b and
\* a * b reduced modulo the word range, for all words; 0 - 1 is the largest
\* word and no pair of operands is an error.
C31_AddSubMul ==
    [][LET a == Popped(Top, 1)
           b == Popped(Top, 2)
       IN  /\ Executes(Add, 2) => Replaces(2, (a + b) % WordModulus)
           /\ Executes(Sub, 2) =>
                Replaces(2, IF a >= b THEN a - b ELSE WordModulus - (b - a))
           /\ Executes(Mul, 2) => Replaces(2, TimesMod(a, b, WordModulus))]_vars

\* PUSH 1, PUSH 0, SUB has left the largest word
C31_Witness ==
    /\ Top.code = PushWord(1) \o PushWord(0) \o <<Sub>>
    /\ Top.halted
    /\ Top.stack = <<MaxWord>>

\* the integer a word stands for under the two's-complement reading
Signed(w) == IF w >= SignBitWord THEN w - WordModulus ELSE w

\* the word that encodes the integer i, for -WordModulus <= i
Encode(i) == (i + WordModulus) % WordModulus

Abs(i) == IF i < 0 THEN 0 - i ELSE i

\* the quotient of the integers i and j # 0, truncated toward zero
QuotientToZero(i, j) ==
    IF (i < 0) = (j < 0) THEN Abs(i) \div Abs(j)
    ELSE 0 - (Abs(i) \div Abs(j))

\* C32: SDIV pops a (the top) and b and pushes the encoding of the signed
\* quotient of a by b truncated toward zero for every b # 0, also when the
\* quotient is zero and the operands have opposite signs; it pushes zero
\* for b = 0, and the smallest signed word for that word divided by -1.
C32_Sdiv ==
    [][Executes(Sdiv, 2) =>
            LET a == Popped(Top, 1)
                b == Popped(Top, 2)
            IN  Replaces(2, IF b = 0 THEN 0
                            ELSE Encode(QuotientToZero(Signed(a), Signed(b))))]_vars

\* C33: ADDMOD pops a, b and N and pushes (a + b) mod N, MULMOD pushes
\* (a * b) mod N, both computed over the integers for all words a, b and
\* N # 0, also when a + b or a * b is outside the word range; both push
\* zero for N = 0.
C33_AddmodMulmod ==
    [][LET a == Popped(Top, 1)
           b == Popped(Top, 2)
           N == Popped(Top, 3)
       IN  /\ Executes(Addmod, 3) =>
                Replaces(3, IF N = 0 THEN 0 ELSE (a + b) % N)
           /\ Executes(Mulmod, 3) =>
                Replaces(3, IF N = 0 THEN 0 ELSE TimesMod(a, b, N))]_vars

\* C34: SLT and SGT pop a (the top) and b and push 1 iff a < b,
\* respectively a > b, as signed integers (the top bit is the sign), and 0
\* otherwise, for all pairs of words, pairs of opposite sign included.
C34_SltSgt ==
    [][LET a == Popped(Top, 1)
           b == Popped(Top, 2)
       IN  /\ Executes(Slt, 2) =>
                Replaces(2, IF Signed(a) < Signed(b) THEN 1 ELSE 0)
           /\ Executes(Sgt, 2) =>
                Replaces(2, IF Signed(a) > Signed(b) THEN 1 ELSE 0)]_vars

\* floor(i / 2^n) for an integer i
FloorShift(i, n) ==
    IF i >= 0 THEN i \div Pow2(n)
    ELSE 0 - ((Abs(i) + Pow2(n) - 1) \div Pow2(n))

\* C35: SAR pops shift (the top) and x and pushes the encoding of
\* floor(signed(x) / 2^shift) for every shift below the word's bit count
\* (x itself for shift 0, also for a negative x); for every larger shift
\* word it pushes zero for a non-negative x and the all-one word for a
\* negative x.
C35_Sar ==
    [][Executes(Sar, 2) =>
            LET shift == Popped(Top, 1)
                x == Popped(Top, 2)
            IN  Replaces(2, IF shift >= WordBits
                            THEN (IF Signed(x) < 0 THEN MaxWord ELSE 0)
                            ELSE Encode(FloorShift(Signed(x), shift)))]_vars

\* C36: an SSTORE(k, v) that succeeds increases gas_used by exactly 20000
\* when the slot held zero and v is not zero, by exactly 15000 when the
\* slot held a non-zero word and v is zero, and by exactly 5000 otherwise.
C36_SstoreGas ==
    [][(Executes(Sstore, 2) /\ fault' = "none" /\ Top'.err = "none") =>
            LET old == IF Popped(Top, 1) \in DOMAIN Top.storage
                       THEN Top.storage[Popped(Top, 1)] ELSE 0
                v == Popped(Top, 2)
            IN  Top'.gas_used - Top.gas_used =
                    IF old = 0 /\ v # 0 THEN 20000
                    ELSE IF old # 0 /\ v = 0 THEN 15000
                    ELSE 5000]_vars

\* the fields of a frame that executing an opcode can change
Executed(f) ==
    <<f.program_counter, f.stack, f.memory, f.storage, f.logs, f.gas_used>>

\* C37: in every state of every frame, the one of Evm::execute and the
\* ones of the call opcodes' run loops, halted and reverted are not both
\* true; once one of them is set, no opcode of that frame is executed: a
\* step of it returns at once, and its pc, stack, memory, storage, logs and
\* gas_used stay as they are for as long as the frame exists.
C37_EndedFrame ==
    [][/\ \A i \in 1..Len(frames') :
            ~(frames'[i].halted /\ frames'[i].reverted)
       /\ \A i \in 1..Len(frames') :
            status(frames'[i]) # "Running" =>
                /\ step(frames'[i]).f = frames'[i]
                /\ step(frames'[i]).err = "none"
                /\ step(frames'[i]).fault = "none"
       /\ \A i \in 1..Len(frames) :
            (/\ status(frames[i]) # "Running"
             /\ i <= Len(frames') /\ frames'[i].id = frames[i].id) =>
                /\ Executed(frames'[i]) = Executed(frames[i])
                /\ status(frames'[i]) = status(frames[i])]_vars

\* a child that failed before the end of its code, with words on its stack
\* and gas spent, waits for its caller to resume
C37_Witness ==
    /\ Len(frames) = 2
    /\ Top.reverted /\ ~Top.halted
    /\ Top.program_counter < Len(Top.code)
    /\ Top.stack # <<>> /\ Top.gas_used > 0

C39_Logs ==
    [][/\ \A i \in 1..Len(frames) :
            (i <= Len(frames') /\ frames'[i].id = frames[i].id) =>
                LET before == frames[i].logs
                    after == frames'[i].logs
                IN  /\ Len(after) \in {Len(before), Len(before) + 1}
                    /\ SubSeq(after, 1, Len(before)) = before
                    /\ (Len(after) = Len(before) + 1) =>
                            /\ after[Len(after)].address = frames[i].address
                            /\ i = Len(frames) /\ Len(frames') = Len(frames)
                            /\ IsLog(AtOpcode(frames[i]))
       /\ (Len(frames') > Len(frames)) => Top'.logs = <<>>
       /\ (Len(frames') < Len(frames)) =>
                Top'.logs = frames[Len(frames) - 1].logs
       /\ (done' /\ ~done) => result'.logs = frames[1].logs]_vars

\* the run has logged two zero bytes, made a DELEGATECALL whose child
\* emitted a LOG0 and succeeded, and logged an empty record: the result
\* holds the two records of the top-level frame
C39_Witness ==
    /\ done
    /\ frames[1].code =
            <<Push1, 5, Push1, 2, Push0, Log0>>
                \o CallOp(Delegatecall, FamilyAddress(2, Log0), 0, 0, 0)
                \o <<Push0, Push0, Log0, Stop>>
    /\ result.success /\ result.stack = <<1, 5>>
    /\ Len(result.logs) = 2
    /\ result.logs[1].data = <<0, 0>>
    /\ result.logs[2].data = <<>>

\* what a frame is besides its stack, memory, storage, return data, program
\* counter, gas used and the call it waits for
Rest(f) ==
    <<f.code, f.logs, f.address, f.caller, f.callvalue, f.calldata,
      f.gas_limit, f.halted, f.reverted, f.static_context, f.config, f.id>>

SameBytes(m, n) == \A i \in MemRange : ByteAt(m, i) = ByteAt(n, i)

====
